---- MODULE Spec2Model ----
(***************************************************************************)
(* A model of the BSE connector's stateful subsystems and date utilities:  *)
(*   - the securities store and the in-memory SecurityIndex                *)
(*     (cache.py securities section, resolver.py),                         *)
(*   - the document cache, its chunker and chunk retrieval (cache.py),     *)
(*   - the store's writes statement by statement, with readers on other    *)
(*     connections and failures between statements (SpecTxn),              *)
(*   - two threads inside resolve on the shared index (SpecThreads),       *)
(*   - create_smart_chunks and split_date_range as functions of their      *)
(*     arguments (SpecChunks, SpecDates),                                  *)
(*   - resolve_company with the provider's code lookup (SpecCompany),      *)
(*   - a loaded index next to a store that another process replaces        *)
(*     (SpecLoaded).                                                       *)
(* Strings are sequences of one-character strings, so that strip, upper,   *)
(* lower, isdigit, startswith, "in" and the ISIN pattern are computed as   *)
(* Python computes them.                                                   *)
(***************************************************************************)
EXTENDS Integers, Sequences, FiniteSets, TLC

VARIABLES
    securities,   \* store: rows of table securities, in rowid order
    documents,    \* store: rows of table documents, in rowid order
    chunks,       \* store: rows of table chunks, in rowid (AUTOINCREMENT) order
    index,        \* the shared SecurityIndex instance (_resolver)
    now,          \* the wall clock, in hours
    result,       \* the outcome of the call made by the last step
    conn,         \* the sqlite3 connection that has a write transaction open
    threads       \* the threads inside a call on the shared SecurityIndex

vars == <<securities, documents, chunks, index, now, result, conn, threads>>

(***************************************************************************)
(* Bounds of the model.                                                    *)
(***************************************************************************)
MaxTicks == 3        \* the clock advances at most this many times
HoursPerTick == 12   \* hours per clock advance

(***************************************************************************)
(* Characters and strings.                                                 *)
(***************************************************************************)
LowerLetters ==
    <<"a","b","c","d","e","f","g","h","i","j","k","l","m",
      "n","o","p","q","r","s","t","u","v","w","x","y","z">>
UpperLetters ==
    <<"A","B","C","D","E","F","G","H","I","J","K","L","M",
      "N","O","P","Q","R","S","T","U","V","W","X","Y","Z">>
Digits == <<"0","1","2","3","4","5","6","7","8","9">>

Range(s) == {s[i] : i \in DOMAIN s}
IndexOf(s, c) == CHOOSE i \in DOMAIN s : s[i] = c

DigitChars == Range(Digits)
UpperChars == Range(UpperLetters)
LowerChars == Range(LowerLetters)
Chars == {" ", "|"} \cup DigitChars \cup UpperChars \cup LowerChars

\* Code points of the characters used: space < digits < upper < lower < "|".
ord ==
    [c \in Chars |->
        IF c = " " THEN 32
        ELSE IF c = "|" THEN 124
        ELSE IF c \in DigitChars THEN 47 + IndexOf(Digits, c)
        ELSE IF c \in UpperChars THEN 64 + IndexOf(UpperLetters, c)
        ELSE 96 + IndexOf(LowerLetters, c)]

\* str.upper() and str.lower(), per character
upper_char ==
    [c \in Chars |-> IF c \in LowerChars THEN UpperLetters[IndexOf(LowerLetters, c)] ELSE c]
lower_char ==
    [c \in Chars |-> IF c \in UpperChars THEN LowerLetters[IndexOf(UpperLetters, c)] ELSE c]

upper(s) == [i \in DOMAIN s |-> upper_char[s[i]]]
lower(s) == [i \in DOMAIN s |-> lower_char[s[i]]]

\* str.strip(): leading and trailing whitespace removed.
strip(s) ==
    LET keep == {i \in DOMAIN s : s[i] # " "}
    IN  IF keep = {} THEN <<>>
        ELSE LET lo == CHOOSE i \in keep : \A j \in keep : i <= j
                 hi == CHOOSE i \in keep : \A j \in keep : j <= i
             IN  SubSeq(s, lo, hi)

\* str.isdigit(): non-empty and every character a digit.
isdigit(s) == Len(s) > 0 /\ \A i \in DOMAIN s : s[i] \in DigitChars

startswith(s, p) == Len(p) <= Len(s) /\ SubSeq(s, 1, Len(p)) = p

\* Python's "p in s" on strings.
contains(s, p) ==
    \E k \in 0..(Len(s) - Len(p)) : SubSeq(s, k + 1, k + Len(p)) = p

\* Python's string comparison a < b (lexicographic on code points).
str_less(a, b) ==
    \E k \in 1..(Len(b)) :
        /\ k <= Len(a) + 1
        /\ SubSeq(a, 1, k - 1) = SubSeq(b, 1, k - 1)
        /\ \/ k = Len(a) + 1
           \/ (k <= Len(a) /\ ord[a[k]] < ord[b[k]])

\* " | ".join(parts)
RECURSIVE join(_, _)
join(sep, parts) ==
    IF parts = <<>> THEN <<>>
    ELSE IF Len(parts) = 1 THEN parts[1]
    ELSE parts[1] \o sep \o join(sep, Tail(parts))

\* xs[:n] for n >= 0
take(xs, n) == SubSeq(xs, 1, IF n < Len(xs) THEN n ELSE Len(xs))

\* ISIN_PATTERN = ^[A-Z]{2}[A-Z0-9]{10}$ with re.IGNORECASE
IsinLetters == 2
IsinAlnum == 10
is_letter(c) == c \in UpperChars \/ c \in LowerChars
ISIN_PATTERN(s) ==
    /\ Len(s) = IsinLetters + IsinAlnum
    /\ \A i \in 1..IsinLetters : is_letter(s[i])
    /\ \A i \in (IsinLetters + 1)..(IsinLetters + IsinAlnum) :
           is_letter(s[i]) \/ s[i] \in DigitChars

(***************************************************************************)
(* Python dicts, kept in insertion order: sequences of [k, v] pairs.       *)
(***************************************************************************)
dict_has(d, k) == \E i \in DOMAIN d : d[i].k = k
dict_get(d, k) == d[CHOOSE i \in DOMAIN d : d[i].k = k].v
dict_set(d, k, v) ==
    IF dict_has(d, k)
    THEN [i \in DOMAIN d |-> IF d[i].k = k THEN [k |-> k, v |-> v] ELSE d[i]]
    ELSE Append(d, [k |-> k, v |-> v])

\* sec.get(key, default) on a provider record
get(sec, key, default) == IF key \in DOMAIN sec THEN sec[key] ELSE default

(***************************************************************************)
(* The provider (bse.listSecurities): the records the exchange may list,   *)
(* each under the market-segment group whose listing returns it.  Keys are *)
(* those of the provider's records.  U5 repeats the code of U1 in another  *)
(* group; U6 has no symbol; U3 and U5, U6 have no ISIN.                    *)
(***************************************************************************)
U1 ==
    [listed |-> "A",
     rec |-> [SCRIP_CD |-> <<"5","0","0">>, scrip_id |-> <<"R","E","L">>,
              Scrip_Name |-> <<"R","e","l"," ","I","n","d">>,
              Issuer_Name |-> <<"R","e","l"," ","I","n","d"," ","L","t","d">>,
              GROUP |-> "A", ISIN_NUMBER |-> <<"I","N","E","0","0","2","A","0","1","0","1","8">>]]
U2 ==
    [listed |-> "B",
     rec |-> [SCRIP_CD |-> <<"5","3","2">>, scrip_id |-> <<"R","E","L","I">>,
              Scrip_Name |-> <<"R","e","l","i","g","a","r","e">>,
              Issuer_Name |-> <<"R","e","l","i","g","a","r","e"," ","E","n","t">>,
              GROUP |-> "B", ISIN_NUMBER |-> <<"I","N","E","6","2","1","H","0","1","0","1","0">>]]
U3 ==
    [listed |-> "A",
     rec |-> [SCRIP_CD |-> <<"5","2","3">>, scrip_id |-> <<"3","M">>,
              Scrip_Name |-> <<"3","M"," ","I","n","d","i","a">>,
              Issuer_Name |-> <<"3","M"," ","I","n","d","i","a"," ","L","t","d">>,
              GROUP |-> "A", ISIN_NUMBER |-> <<>>]]
U4 ==
    [listed |-> "X",
     rec |-> [SCRIP_CD |-> <<"5","4","0">>, scrip_id |-> <<"T","A","T","A","P","O","W","E","R","C","O","M">>,
              Scrip_Name |-> <<"T","a","t","a"," ","P","o","w","e","r">>,
              Issuer_Name |-> <<"T","a","t","a"," ","P","o","w","e","r"," ","C","o">>,
              GROUP |-> "X", ISIN_NUMBER |-> <<"I","N","E","2","4","5","A","0","1","0","2","1">>]]
U5 ==
    [listed |-> "B",
     rec |-> [SCRIP_CD |-> <<"5","0","0">>, scrip_id |-> <<"R","E","L","O","L","D">>,
              Scrip_Name |-> <<"R","e","l"," ","O","l","d">>,
              Issuer_Name |-> <<"R","e","l"," ","I","n","d"," ","L","t","d">>,
              GROUP |-> "B", ISIN_NUMBER |-> <<>>]]
U6 ==
    [listed |-> "T",
     rec |-> [SCRIP_CD |-> <<"5","9","0">>, scrip_id |-> <<>>,
              Scrip_Name |-> <<"I","n","d","i","a"," ","B","o","n","d">>,
              Issuer_Name |-> <<>>,
              GROUP |-> "T", ISIN_NUMBER |-> <<>>]]
U7 ==
    [listed |-> "M",
     rec |-> [SCRIP_CD |-> <<"5","7","0">>, scrip_id |-> <<"T","A","T","A","M">>,
              Scrip_Name |-> <<"P","o","w","e","r"," ","M","i","l","l","s"," ","C","o">>,
              Issuer_Name |-> <<"P","o","w","e","r"," ","M","i","l","l","s"," ","C","o"," ","L","t","d">>,
              GROUP |-> "M", ISIN_NUMBER |-> <<>>]]
Universe == <<U1, U2, U3, U4, U5, U6, U7>>

\* What the exchange lists at the time of a fetch, and the groups whose
\* listSecurities call raises.
Worlds ==
    {[avail |-> {}, failing |-> {}],
     [avail |-> {1, 2, 3, 4, 5, 6, 7}, failing |-> {}],
     [avail |-> {1, 2, 3, 4, 5, 6, 7}, failing |-> {"A"}],
     [avail |-> {1, 2, 3}, failing |-> {"B"}],
     [avail |-> {2, 4, 5, 6}, failing |-> {}]}

\* bse_instance.listSecurities(group=group): [ok, secs]
listSecurities(world, group) ==
    [ok   |-> group \notin world.failing,
     secs |-> LET pick == SelectSeq(<<1, 2, 3, 4, 5, 6, 7>>,
                              LAMBDA i : i \in world.avail /\ Universe[i].listed = group)
              IN  [k \in DOMAIN pick |-> Universe[pick[k]].rec]]

\* The queries callers pass to resolve.
Queries ==
    {<<>>,
     <<" "," ">>,
     <<"5","0","0">>,
     <<" ","5","0","0"," ">>,
     <<"3">>,
     <<"9","9","9">>,
     <<"i","n","e","0","0","2","a","0","1","0","1","8">>,
     <<"I","N","E","0","0","0","0","0","0","0","0","0">>,
     <<"T","A","T","A","P","O","W","E","R","C","O","M">>,
     <<"r","e","l">>,
     <<"r","e">>,
     <<"t","a","t","a">>,
     <<"p","o","w","e","r">>,
     <<"i","n","d","i","a">>,
     <<"x","y","z">>}

(***************************************************************************)
(* The persistent store: table securities (cache.py).                      *)
(***************************************************************************)
SECURITIES_TTL_HOURS == 24

\* get_securities_age(): None when the table is empty (MIN over no rows),
\* else the hours since the oldest cached_at.
get_securities_age(rows, t) ==
    IF rows = <<>> THEN [none |-> TRUE, hours |-> 0]
    ELSE LET oldest == CHOOSE c \in {rows[i].cached_at : i \in DOMAIN rows} :
                           \A i \in DOMAIN rows : c <= rows[i].cached_at
         IN  [none |-> FALSE, hours |-> t - oldest]

\* The row save_securities builds from one provider (or stored) record.
securities_row(sec, t) ==
    [scrip_code  |-> get(sec, "scrip_code", get(sec, "Scrip_Code", get(sec, "SCRIP_CD", <<>>))),
     scrip_id    |-> get(sec, "scrip_id", <<>>),
     scrip_name  |-> get(sec, "scrip_name", get(sec, "Scrip_Name", <<>>)),
     issuer_name |-> get(sec, "issuer_name", get(sec, "Issuer_Name", get(sec, "ISSUER_NAME", <<>>))),
     scrip_group |-> get(sec, "scrip_group", get(sec, "GROUP", get(sec, "Scrip_Group", ""))),
     isin        |-> get(sec, "isin", get(sec, "ISIN_NUMBER", get(sec, "ISIN", <<>>))),
     cached_at   |-> t]

\* INSERT OR REPLACE on the primary key scrip_code: a row with the same key
\* is deleted and the new row gets a new rowid.
insert_or_replace(rows, row) ==
    Append(SelectSeq(rows, LAMBDA r : r.scrip_code # row.scrip_code), row)

RECURSIVE insert_all(_, _, _)
insert_all(rows, secs, t) ==
    IF secs = <<>> THEN rows
    ELSE insert_all(insert_or_replace(rows, securities_row(secs[1], t)), Tail(secs), t)

\* save_securities(securities): DELETE FROM securities, then the inserts,
\* all with the same timestamp; the table after the commit.
save_securities(secs, t) == insert_all(<<>>, secs, t)

\* load_securities(): SELECT * FROM securities
load_securities(rows) == rows

(***************************************************************************)
(* SecurityIndex (resolver.py).                                            *)
(***************************************************************************)
GROUPS == <<"A", "B", "T", "X", "XT", "Z", "M", "MT", "P">>

\* SecurityIndex.__init__
NewIndex ==
    [securities |-> <<>>, by_code |-> <<>>, by_isin |-> <<>>, by_symbol |-> <<>>,
     search_corpus |-> <<>>, loaded |-> FALSE]

\* One iteration of the loop of _build_index.
build_step(ix, sec) ==
    LET code   == sec.scrip_code
        isin   == sec.isin
        symbol == sec.scrip_id
        parts  == SelectSeq(<<symbol, sec.scrip_name, sec.issuer_name>>,
                            LAMBDA p : p # <<>>)
    IN  [ix EXCEPT
           !.by_code   = IF code # <<>> THEN dict_set(@, code, sec) ELSE @,
           !.by_isin   = IF isin # <<>> THEN dict_set(@, upper(isin), sec) ELSE @,
           !.by_symbol = IF symbol # <<>> THEN dict_set(@, upper(symbol), sec) ELSE @,
           !.search_corpus = Append(@, join(<<" ", "|", " ">>, parts))]

RECURSIVE build_loop(_, _)
build_loop(ix, secs) ==
    IF secs = <<>> THEN ix ELSE build_loop(build_step(ix, secs[1]), Tail(secs))

\* _build_index(securities)
build_index(secs) ==
    [build_loop([NewIndex EXCEPT !.securities = secs], secs) EXCEPT !.loaded = TRUE]

\* The inner loop of _fetch_and_cache over one group's listing.
RECURSIVE fetch_secs(_, _)
fetch_secs(acc, secs) ==
    IF secs = <<>> THEN acc
    ELSE LET sec  == secs[1]
             code == get(sec, "SCRIP_CD", get(sec, "scrip_code", get(sec, "Scrip_Code", <<>>)))
         IN  fetch_secs(
                 IF code # <<>> /\ code \notin acc.seen_codes
                 THEN [all_securities |-> Append(acc.all_securities, sec),
                       seen_codes |-> acc.seen_codes \cup {code}]
                 ELSE acc,
                 Tail(secs))

\* The loop of _fetch_and_cache over GROUPS; a group whose listing raises is
\* skipped.
RECURSIVE fetch_groups(_, _, _)
fetch_groups(acc, world, groups) ==
    IF groups = <<>> THEN acc
    ELSE LET r == listSecurities(world, groups[1])
         IN  fetch_groups(IF r.ok THEN fetch_secs(acc, r.secs) ELSE acc,
                          world, Tail(groups))

\* all_securities after the loop of _fetch_and_cache over GROUPS.
fetch_all(world) ==
    fetch_groups([all_securities |-> <<>>, seen_codes |-> {}], world, GROUPS).all_securities

\* Mutant of _fetch_and_cache: a fetch that yields nothing is saved like any
\* other, which empties the store.
fetch_and_cache_save_empty(ix, rows, t, world) ==
    LET all_securities == fetch_all(world)
        saved == save_securities(all_securities, t)
    IN  [securities |-> saved, index |-> build_index(load_securities(saved))]

\* Mutant of _fetch_and_cache: the fetched records are merged into the rows
\* the store holds.
fetch_and_cache_merge(ix, rows, t, world) ==
    LET all_securities == fetch_all(world)
    IN  IF all_securities # <<>>
        THEN LET saved == insert_all(rows, all_securities, t)
             IN  [securities |-> saved, index |-> build_index(load_securities(saved))]
        ELSE LET cached == load_securities(rows)
             IN  [securities |-> rows,
                  index |-> IF cached # <<>> THEN build_index(cached) ELSE ix]

\* Mutant of _fetch_and_cache: one group whose listing raises aborts the
\* refresh, and nothing of the other groups is saved.
fetch_and_cache_abort(ix, rows, t, world) ==
    LET all_securities == IF world.failing # {} THEN <<>> ELSE fetch_all(world)
    IN  IF all_securities # <<>>
        THEN LET saved == save_securities(all_securities, t)
             IN  [securities |-> saved, index |-> build_index(load_securities(saved))]
        ELSE LET cached == load_securities(rows)
             IN  [securities |-> rows,
                  index |-> IF cached # <<>> THEN build_index(cached) ELSE ix]

\* Mutant of _fetch_and_cache: after a fetch that yields nothing over an
\* empty store the index is built from no rows and marked loaded.
fetch_and_cache_mark_loaded(ix, rows, t, world) ==
    LET all_securities == fetch_all(world)
    IN  IF all_securities # <<>>
        THEN LET saved == save_securities(all_securities, t)
             IN  [securities |-> saved, index |-> build_index(load_securities(saved))]
        ELSE [securities |-> rows, index |-> build_index(load_securities(rows))]

\* _fetch_and_cache(bse_instance): the store and the index after it.
fetch_and_cache(ix, rows, t, world) ==
    LET all_securities == fetch_all(world)
    IN  IF all_securities # <<>>
        THEN LET saved == save_securities(all_securities, t)
             IN  [securities |-> saved, index |-> build_index(load_securities(saved))]
        ELSE LET cached == load_securities(rows)
             IN  [securities |-> rows,
                  index |-> IF cached # <<>> THEN build_index(cached) ELSE ix]

\* Mutant of ensure_loaded: without the stale fallback, a store that is not
\* fresh and no provider handle raise.
ensure_loaded_no_stale(ix, rows, t, has_bse) ==
    LET age == get_securities_age(rows, t)
        cached == load_securities(rows)
    IN  IF ix.loaded THEN [kind |-> "return", index |-> ix]
        ELSE IF (~age.none) /\ age.hours < SECURITIES_TTL_HOURS /\ cached # <<>>
        THEN [kind |-> "return", index |-> build_index(cached)]
        ELSE IF ~has_bse
        THEN [kind |-> "raise", index |-> ix]
        ELSE [kind |-> "fetch", index |-> ix]

\* Mutant of ensure_loaded: an empty store and no provider handle build an
\* empty index instead of raising.
ensure_loaded_empty_ok(ix, rows, t, has_bse) ==
    LET age == get_securities_age(rows, t)
        cached == load_securities(rows)
    IN  IF ix.loaded THEN [kind |-> "return", index |-> ix]
        ELSE IF (~age.none) /\ age.hours < SECURITIES_TTL_HOURS /\ cached # <<>>
        THEN [kind |-> "return", index |-> build_index(cached)]
        ELSE IF ~has_bse
        THEN [kind |-> "return", index |-> build_index(cached)]
        ELSE [kind |-> "fetch", index |-> ix]

\* Mutant of ensure_loaded: a loaded index is kept only while the store is
\* younger than the threshold.
ensure_loaded_reload_stale(ix, rows, t, has_bse) ==
    LET age == get_securities_age(rows, t)
        cached == load_securities(rows)
    IN  IF ix.loaded /\ (~age.none) /\ age.hours < SECURITIES_TTL_HOURS
        THEN [kind |-> "return", index |-> ix]
        ELSE IF (~age.none) /\ age.hours < SECURITIES_TTL_HOURS /\ cached # <<>>
        THEN [kind |-> "return", index |-> build_index(cached)]
        ELSE IF ~has_bse
        THEN IF cached # <<>>
             THEN [kind |-> "return", index |-> build_index(cached)]
             ELSE [kind |-> "raise", index |-> ix]
        ELSE [kind |-> "fetch", index |-> ix]

\* Mutant of ensure_loaded: with a provider handle the listing is fetched
\* whatever the store holds.
ensure_loaded_always_fetch(ix, rows, t, has_bse) ==
    LET cached == load_securities(rows)
    IN  IF ix.loaded THEN [kind |-> "return", index |-> ix]
        ELSE IF has_bse THEN [kind |-> "fetch", index |-> ix]
        ELSE IF cached # <<>>
        THEN [kind |-> "return", index |-> build_index(cached)]
        ELSE [kind |-> "raise", index |-> ix]

\* _ensure_loaded(bse_instance) up to its last line: "return" with the index
\* it leaves, "raise" (RuntimeError), or "fetch" when it goes on to
\* _fetch_and_cache(bse_instance).
ensure_loaded(ix, rows, t, has_bse) ==
    LET age == get_securities_age(rows, t)
        cached == load_securities(rows)
    IN  IF ix.loaded THEN [kind |-> "return", index |-> ix]
        ELSE IF (~age.none) /\ age.hours < SECURITIES_TTL_HOURS /\ cached # <<>>
        THEN [kind |-> "return", index |-> build_index(cached)]
        ELSE IF ~has_bse
        THEN IF cached # <<>>
             THEN [kind |-> "return", index |-> build_index(cached)]
             ELSE [kind |-> "raise", index |-> ix]
        ELSE [kind |-> "fetch", index |-> ix]

\* _format_result(sec, score)
format_result(sec, score) ==
    [scrip_code  |-> sec.scrip_code,
     scrip_id    |-> sec.scrip_id,
     name        |-> sec.scrip_name,
     issuer_name |-> sec.issuer_name,
     group       |-> sec.scrip_group,
     isin        |-> sec.isin,
     score       |-> score]

\* group_order.get(group, 9) with group_order = {"A": 0, "B": 1, "T": 2, "M": 3}
group_order(g) ==
    CASE g = "A" -> 0 [] g = "B" -> 1 [] g = "T" -> 2 [] g = "M" -> 3 [] OTHER -> 9

\* The sort key of the prefix tier: (group_order, len(scrip_id), name).
prefix_key_less(x, y) ==
    \/ group_order(x.group) < group_order(y.group)
    \/ /\ group_order(x.group) = group_order(y.group)
       /\ \/ Len(x.scrip_id) < Len(y.scrip_id)
          \/ (Len(x.scrip_id) = Len(y.scrip_id) /\ str_less(x.name, y.name))

\* The sort key of the name tier: (len(name), group_order).
name_key_less(x, y) ==
    \/ Len(x.name) < Len(y.name)
    \/ (Len(x.name) = Len(y.name) /\ group_order(x.group) < group_order(y.group))

\* The sort key of process.extract: score descending.
score_key_less(x, y) == x.score > y.score

\* list.sort is stable: x goes after the k elements that are not greater.
insert_sorted(sorted, x, k) ==
    SubSeq(sorted, 1, k) \o <<x>> \o SubSeq(sorted, k + 1, Len(sorted))

RECURSIVE sort_prefix(_)
sort_prefix(xs) ==
    IF xs = <<>> THEN <<>>
    ELSE LET sorted == sort_prefix(SubSeq(xs, 1, Len(xs) - 1))
             x == xs[Len(xs)]
         IN  insert_sorted(sorted, x,
                 Cardinality({i \in DOMAIN sorted : ~prefix_key_less(x, sorted[i])}))

RECURSIVE sort_name(_)
sort_name(xs) ==
    IF xs = <<>> THEN <<>>
    ELSE LET sorted == sort_name(SubSeq(xs, 1, Len(xs) - 1))
             x == xs[Len(xs)]
         IN  insert_sorted(sorted, x,
                 Cardinality({i \in DOMAIN sorted : ~name_key_less(x, sorted[i])}))

RECURSIVE sort_score(_)
sort_score(xs) ==
    IF xs = <<>> THEN <<>>
    ELSE LET sorted == sort_score(SubSeq(xs, 1, Len(xs) - 1))
             x == xs[Len(xs)]
         IN  insert_sorted(sorted, x,
                 Cardinality({i \in DOMAIN sorted : ~score_key_less(x, sorted[i])}))

\* The prefix tier's loop over _by_symbol.items().
prefix_matches(ix, query_upper) ==
    LET hits == SelectSeq(ix.by_symbol, LAMBDA e : startswith(e.k, query_upper))
    IN  [i \in DOMAIN hits |-> format_result(hits[i].v, 95)]

\* The name tier's loop over _securities.
name_matches(ix, query_lower) ==
    LET hits == SelectSeq(ix.securities,
                          LAMBDA sec : \/ contains(lower(sec.scrip_name), query_lower)
                                       \/ contains(lower(sec.issuer_name), query_lower))
    IN  [i \in DOMAIN hits |-> format_result(hits[i], 90)]

\* rapidfuzz process.extract(query, corpus, scorer=fuzz.WRatio, limit=top_n,
\* score_cutoff=cutoff), given the scorer's value wratio[i] for corpus entry i:
\* the entries at or above the cutoff, by score descending, the first top_n.
extract(ix, wratio, top_n, cutoff) ==
    LET scored == [i \in DOMAIN ix.search_corpus |->
                       format_result(ix.securities[i], wratio[i])]
        kept == SelectSeq(scored, LAMBDA m : m.score >= cutoff)
    IN  take(sort_score(kept), top_n)

\* The fuzzy tier of resolve (resolver.py lines 189-203).
fuzzy_tier(ix, wratio, top_n, cutoff) ==
    [tier |-> "fuzzy", val |-> extract(ix, wratio, top_n, cutoff)]

\* Mutant of name_tier: the matches are sorted by group first and by the
\* length of the name second.
name_tier_group_first(ix, query, wratio, top_n, cutoff) ==
    LET matches == name_matches(ix, lower(query))
        less(x, y) ==
            \/ group_order(x.group) < group_order(y.group)
            \/ (group_order(x.group) = group_order(y.group) /\ Len(x.name) < Len(y.name))
        RECURSIVE sorted(_)
        sorted(xs) ==
            IF xs = <<>> THEN <<>>
            ELSE LET front == sorted(SubSeq(xs, 1, Len(xs) - 1))
                     x == xs[Len(xs)]
                 IN  insert_sorted(front, x,
                         Cardinality({i \in DOMAIN front : ~less(x, front[i])}))
    IN  IF matches # <<>>
        THEN [tier |-> "substring", val |-> take(sorted(matches), top_n)]
        ELSE fuzzy_tier(ix, wratio, top_n, cutoff)

\* Mutant of name_tier: the fuzzy matches are appended to the name matches
\* instead of being returned only when there is no name match.
name_tier_merged(ix, query, wratio, top_n, cutoff) ==
    LET matches == name_matches(ix, lower(query))
    IN  IF matches # <<>>
        THEN [tier |-> "substring",
              val |-> take(sort_name(matches) \o extract(ix, wratio, top_n, cutoff), top_n)]
        ELSE fuzzy_tier(ix, wratio, top_n, cutoff)

\* The name-contains tier and what follows it (lines 172-203).
name_tier(ix, query, wratio, top_n, cutoff) ==
    LET matches == name_matches(ix, lower(query))
    IN  IF matches # <<>>
        THEN [tier |-> "substring", val |-> take(sort_name(matches), top_n)]
        ELSE fuzzy_tier(ix, wratio, top_n, cutoff)

\* Mutant of prefix_tier: the matches are returned in table order.
prefix_tier_unsorted(ix, query, wratio, top_n, cutoff) ==
    LET matches == prefix_matches(ix, upper(query))
    IN  IF matches # <<>>
        THEN [tier |-> "prefix", val |-> take(matches, top_n)]
        ELSE name_tier(ix, query, wratio, top_n, cutoff)

\* The prefix tier and what follows it (lines 156-203).
prefix_tier(ix, query, wratio, top_n, cutoff) ==
    LET matches == prefix_matches(ix, upper(query))
    IN  IF matches # <<>>
        THEN [tier |-> "prefix", val |-> take(sort_prefix(matches), top_n)]
        ELSE name_tier(ix, query, wratio, top_n, cutoff)

\* The exact-symbol tier and what follows it (lines 151-203).
symbol_tier(ix, query, wratio, top_n, cutoff) ==
    IF dict_has(ix.by_symbol, upper(query))
    THEN [tier |-> "symbol", val |-> <<format_result(dict_get(ix.by_symbol, upper(query)), 100)>>]
    ELSE prefix_tier(ix, query, wratio, top_n, cutoff)

\* The ISIN tier (lines 144-149).
isin_tier(ix, query) ==
    IF dict_has(ix.by_isin, upper(query))
    THEN [tier |-> "isin", val |-> <<format_result(dict_get(ix.by_isin, upper(query)), 100)>>]
    ELSE [tier |-> "isin", val |-> <<>>]

\* The scrip code tier (lines 137-142).
code_tier(ix, query) ==
    IF dict_has(ix.by_code, query)
    THEN [tier |-> "code", val |-> <<format_result(dict_get(ix.by_code, query), 100)>>]
    ELSE [tier |-> "code", val |-> <<>>]

\* Mutant of resolve: the code tier's result is cut to top_n like the lists
\* of the later tiers.
resolve_code_sliced(ix, raw_query, wratio, top_n, cutoff) ==
    LET query == strip(raw_query)
    IN  IF query = <<>> THEN [tier |-> "empty", val |-> <<>>]
        ELSE IF isdigit(query)
        THEN [tier |-> "code", val |-> take(code_tier(ix, query).val, top_n)]
        ELSE IF ISIN_PATTERN(query) THEN isin_tier(ix, query)
        ELSE symbol_tier(ix, query, wratio, top_n, cutoff)

\* Mutant of resolve: a code or ISIN lookup that misses falls through to the
\* symbol tier instead of returning the empty list.
resolve_fallthrough(ix, raw_query, wratio, top_n, cutoff) ==
    LET query == strip(raw_query)
    IN  IF query = <<>> THEN [tier |-> "empty", val |-> <<>>]
        ELSE IF isdigit(query) /\ code_tier(ix, query).val # <<>> THEN code_tier(ix, query)
        ELSE IF ISIN_PATTERN(query) /\ isin_tier(ix, query).val # <<>> THEN isin_tier(ix, query)
        ELSE symbol_tier(ix, query, wratio, top_n, cutoff)

\* Mutant of resolve: the query is not stripped.
resolve_unstripped(ix, raw_query, wratio, top_n, cutoff) ==
    LET query == raw_query
    IN  IF query = <<>> THEN [tier |-> "empty", val |-> <<>>]
        ELSE IF isdigit(query) THEN code_tier(ix, query)
        ELSE IF ISIN_PATTERN(query) THEN isin_tier(ix, query)
        ELSE symbol_tier(ix, query, wratio, top_n, cutoff)

\* SecurityIndex.resolve after _ensure_loaded (lines 133-203): the list it
\* returns and the tier whose return statement produced it.
resolve(ix, raw_query, wratio, top_n, cutoff) ==
    LET query == strip(raw_query)
    IN  IF query = <<>> THEN [tier |-> "empty", val |-> <<>>]
        ELSE IF isdigit(query) THEN code_tier(ix, query)
        ELSE IF ISIN_PATTERN(query) THEN isin_tier(ix, query)
        ELSE symbol_tier(ix, query, wratio, top_n, cutoff)

\* The values fuzz.WRatio may give the corpus entries for one query: the
\* scorer is a library function of the query and the entry; its values are
\* left open, over scores below, between and above the cutoffs used.
FuzzyScores == <<40, 70, 100>>
wratio_outcomes(n) ==
    {[i \in 1..n |-> FuzzyScores[((i + k) % Len(FuzzyScores)) + 1]] : k \in 1..Len(FuzzyScores)}

\* (top_n, cutoff) of the calls: the defaults (5, 60), resolve_company's
\* top_n = 1, and a caller's own values.
Params == {<<5, 60>>, <<1, 60>>, <<0, 60>>, <<2, 80>>}

(***************************************************************************)
(* The calls on the shared SecurityIndex.                                  *)
(***************************************************************************)
NoCall == [op |-> "none"]

\* No connection has a write transaction open.
NoConn == [op |-> "none"]

\* The threads that may be inside a call on the shared index, and their
\* state outside any call.
Threads == {"t1", "t2"}
NoThreads == [th \in Threads |-> [pc |-> "idle"]]

\* What a resolve call was given and what it gave back, with how the index
\* got loaded ("loaded", "store", "fetch", "raise"), the provider's listing
\* when it was fetched, and the codes the store held before the call.
NoWorld == [avail |-> {}, failing |-> {}]
resolve_result(query, has_bse, top_n, cutoff, status, load, world, r) ==
    [op |-> "resolve", query |-> query, has_bse |-> has_bse, top_n |-> top_n,
     cutoff |-> cutoff, status |-> status, load |-> load, world |-> world,
     prev |-> {securities[i].scrip_code : i \in DOMAIN securities},
     tier |-> r.tier, val |-> r.val]

\* resolve(query, bse_instance, top_n, cutoff) once the index is ix.
ResolveReturn(ix, rows, query, has_bse, top_n, cutoff, load, world) ==
    \E wratio \in wratio_outcomes(Len(ix.search_corpus)) :
        /\ index' = ix
        /\ securities' = rows
        /\ result' = resolve_result(query, has_bse, top_n, cutoff, "ok", load, world,
                                    resolve(ix, query, wratio, top_n, cutoff))

\* SecurityIndex.resolve(query, bse_instance, top_n, cutoff)
Resolve(query, has_bse, top_n, cutoff) ==
    LET e == ensure_loaded(index, securities, now, has_bse)
    IN  /\ result = NoCall
        /\ CASE e.kind = "raise" ->
                 /\ result' = resolve_result(query, has_bse, top_n, cutoff, "error", "raise",
                                             NoWorld, [tier |-> "none", val |-> <<>>])
                 /\ UNCHANGED <<index, securities>>
            [] e.kind = "return" ->
                 ResolveReturn(e.index, securities, query, has_bse, top_n, cutoff,
                               IF index.loaded THEN "loaded" ELSE "store", NoWorld)
            [] e.kind = "fetch" ->
                 \E world \in Worlds :
                     LET f == fetch_and_cache(index, securities, now, world)
                     IN  ResolveReturn(f.index, f.securities, query, has_bse, top_n, cutoff,
                                       "fetch", world)
        /\ UNCHANGED <<documents, chunks, now, conn, threads>>

\* The process is restarted: bse_client's module-level _resolver = SecurityIndex().
Restart ==
    /\ result = NoCall
    /\ index.loaded
    /\ index' = NewIndex
    /\ UNCHANGED <<securities, documents, chunks, now, result, conn, threads>>

\* Time passes.
Tick ==
    /\ result = NoCall
    /\ now < MaxTicks * HoursPerTick
    /\ now' = now + HoursPerTick
    /\ UNCHANGED <<securities, documents, chunks, index, result, conn, threads>>

\* The call of the last step has returned (or raised) to its caller, which
\* goes on to its next call: the calls are made one after the other.
Return ==
    /\ result # NoCall
    /\ result' = NoCall
    /\ UNCHANGED <<securities, documents, chunks, index, now, conn, threads>>

Init ==
    /\ securities = <<>>
    /\ documents = <<>>
    /\ chunks = <<>>
    /\ index = NewIndex
    /\ now = 0
    /\ result = NoCall
    /\ conn = NoConn
    /\ threads = NoThreads

ResolveCall ==
    \E query \in Queries, has_bse \in BOOLEAN, p \in Params : Resolve(query, has_bse, p[1], p[2])

NextIndex == ResolveCall \/ Restart \/ Tick \/ Return

SpecIndex == Init /\ [][NextIndex]_vars

(***************************************************************************)
(* The persistent store: tables documents and chunks (cache.py).           *)
(* A document's full_text is kept as the sequence of segments that         *)
(* re.split(r'--- Page \d+[^-]*---', text) yields; a segment is a page:    *)
(* its length, whether page.strip() is empty, and the pattern groups of    *)
(* create_smart_chunks with at least one pattern that matches it.          *)
(***************************************************************************)
max_chunk_size == 4000

\* The chunk types in the order of the patterns dict.
pattern_types == <<"guidance", "financials", "qa", "segment", "summary">>

PgEmpty == [name |-> "empty", len |-> 0, blank |-> TRUE, cues |-> {}]
PgG1 == [name |-> "g1", len |-> 1500, blank |-> FALSE, cues |-> {"guidance", "financials"}]
PgG2 == [name |-> "g2", len |-> 2500, blank |-> FALSE, cues |-> {"guidance"}]
PgBig == [name |-> "big", len |-> 4001, blank |-> FALSE, cues |-> {"guidance"}]
PgF == [name |-> "f", len |-> 1200, blank |-> FALSE, cues |-> {"financials"}]
PgQ == [name |-> "q", len |-> 800, blank |-> FALSE, cues |-> {"qa", "segment"}]
PgS == [name |-> "s", len |-> 500, blank |-> FALSE, cues |-> {"summary"}]
PgN == [name |-> "n", len |-> 300, blank |-> FALSE, cues |-> {}]

\* The texts callers cache: the empty text, pages that merge up to the size
\* limit, a page above the limit, same-type pages that do not fit together,
\* and general pages around a typed one.
Texts ==
    {<<PgEmpty>>,
     <<PgEmpty, PgG1, PgG2, PgF>>,
     <<PgEmpty, PgBig, PgS>>,
     <<PgG2, PgG2, PgQ>>,
     <<PgN, PgF, PgEmpty, PgN>>}

Urls == {"u1", "u2"}
Companies == {<<"5","0","0">>, <<"5","3","2">>}
Dates == {<<"0","9">>, <<"1","0">>}

\* hashlib.md5(url.encode()).hexdigest(): a digest that is a function of the
\* URL alone and differs for different URLs.
doc_id_from_url(url) == <<"md5", url>>

\* len(full_text): the pages and the page markers between them
\* ("--- Page N ---").
MarkerLen == 14
RECURSIVE sum_len(_)
sum_len(pages) == IF pages = <<>> THEN 0 ELSE pages[1].len + sum_len(Tail(pages))
text_len(text) == sum_len(text) + MarkerLen * (Len(text) - 1)

\* len("\n".join(pages)) of a chunk's content
content_len(content) ==
    IF content = <<>> THEN 0 ELSE sum_len(content) + (Len(content) - 1)

\* Mutant of detected_type: the loop over the pattern groups is not left at
\* the first group that matches, so the last one that matches is kept.
detected_type_no_break(page) ==
    LET hit == {i \in DOMAIN pattern_types : pattern_types[i] \in page.cues}
    IN  IF hit = {} THEN "general"
        ELSE pattern_types[CHOOSE i \in hit : \A j \in hit : i >= j]

\* The classification loop of create_smart_chunks: the first pattern group
\* with a matching pattern, else "general".
detected_type(page) ==
    LET hit == {i \in DOMAIN pattern_types : pattern_types[i] \in page.cues}
    IN  IF hit = {} THEN "general"
        ELSE pattern_types[CHOOSE i \in hit : \A j \in hit : i <= j]

\* One iteration of the page loop of create_smart_chunks.
chunk_step(st, page) ==
    IF page.blank THEN st
    ELSE IF detected_type(page) # st.current_type
            \/ st.chunk_size + page.len > max_chunk_size
    THEN [chunks |-> IF st.current_chunk # <<>>
                     THEN Append(st.chunks, [type |-> st.current_type,
                                             content |-> st.current_chunk])
                     ELSE st.chunks,
          current_chunk |-> <<page>>,
          current_type |-> detected_type(page),
          chunk_size |-> page.len]
    ELSE [st EXCEPT !.current_chunk = Append(@, page),
                    !.chunk_size = @ + page.len]

RECURSIVE chunk_loop(_, _)
chunk_loop(st, pages) ==
    IF pages = <<>> THEN st ELSE chunk_loop(chunk_step(st, pages[1]), Tail(pages))

\* Mutant of create_smart_chunks: the chunk that is open when the pages end
\* is not appended.
create_smart_chunks_no_flush(text) ==
    chunk_loop([chunks |-> <<>>, current_chunk |-> <<>>,
                current_type |-> "general", chunk_size |-> 0], text).chunks

\* create_smart_chunks(text, doc_type)
create_smart_chunks(text) ==
    LET st == chunk_loop([chunks |-> <<>>, current_chunk |-> <<>>,
                          current_type |-> "general", chunk_size |-> 0], text)
    IN  IF st.current_chunk # <<>>
        THEN Append(st.chunks, [type |-> st.current_type, content |-> st.current_chunk])
        ELSE st.chunks

\* The name the caller passes with a company code.
company_name(code) == <<"C","o"," ">> \o code

\* Mutant of cache_document: the document is inserted without replacing the
\* row of an earlier caching of the URL.
cache_document_plain_insert(docs, chks, url, company_code, date, full_text, t) ==
    LET doc_id == doc_id_from_url(url)
        row == [id |-> doc_id, company_code |-> company_code,
                company_name |-> company_name(company_code), doc_type |-> "transcript",
                headline |-> "headline", url |-> url, date |-> date,
                full_text |-> full_text, pages |-> Len(full_text), ocr_used |-> 0,
                cached_at |-> t, file_size |-> text_len(full_text)]
        new == create_smart_chunks(full_text)
    IN  [documents |-> Append(docs, row),
         chunks |-> SelectSeq(chks, LAMBDA c : c.doc_id # doc_id) \o
                    [i \in DOMAIN new |-> [doc_id |-> doc_id, chunk_type |-> new[i].type,
                                           chunk_index |-> i - 1, content |-> new[i].content]],
         ret |-> doc_id]

\* Mutant of cache_document: a chunk's index is its position in the whole
\* table, not in the document.
cache_document_table_index(docs, chks, url, company_code, date, full_text, t) ==
    LET doc_id == doc_id_from_url(url)
        row == [id |-> doc_id, company_code |-> company_code,
                company_name |-> company_name(company_code), doc_type |-> "transcript",
                headline |-> "headline", url |-> url, date |-> date,
                full_text |-> full_text, pages |-> Len(full_text), ocr_used |-> 0,
                cached_at |-> t, file_size |-> text_len(full_text)]
        new == create_smart_chunks(full_text)
        kept == SelectSeq(chks, LAMBDA c : c.doc_id # doc_id)
    IN  [documents |-> Append(SelectSeq(docs, LAMBDA d : d.id # doc_id), row),
         chunks |-> kept \o
                    [i \in DOMAIN new |-> [doc_id |-> doc_id, chunk_type |-> new[i].type,
                                           chunk_index |-> Len(kept) + i - 1,
                                           content |-> new[i].content]],
         ret |-> doc_id]

\* Mutant of cache_document: the chunks of an earlier caching of the URL are
\* not deleted.
cache_document_no_delete(docs, chks, url, company_code, date, full_text, t) ==
    LET doc_id == doc_id_from_url(url)
        row == [id |-> doc_id, company_code |-> company_code,
                company_name |-> company_name(company_code), doc_type |-> "transcript",
                headline |-> "headline", url |-> url, date |-> date,
                full_text |-> full_text, pages |-> Len(full_text), ocr_used |-> 0,
                cached_at |-> t, file_size |-> text_len(full_text)]
        new == create_smart_chunks(full_text)
    IN  [documents |-> Append(SelectSeq(docs, LAMBDA d : d.id # doc_id), row),
         chunks |-> chks \o
                    [i \in DOMAIN new |-> [doc_id |-> doc_id, chunk_type |-> new[i].type,
                                           chunk_index |-> i - 1, content |-> new[i].content]],
         ret |-> doc_id]

\* cache_document(url, company_code, company_name, doc_type, headline, date,
\* full_text, pages, ocr_used): the two tables after the commit and the id
\* returned.
cache_document(docs, chks, url, company_code, date, full_text, t) ==
    LET doc_id == doc_id_from_url(url)
        row == [id |-> doc_id, company_code |-> company_code,
                company_name |-> company_name(company_code), doc_type |-> "transcript",
                headline |-> "headline", url |-> url, date |-> date,
                full_text |-> full_text, pages |-> Len(full_text), ocr_used |-> 0,
                cached_at |-> t, file_size |-> text_len(full_text)]
        new == create_smart_chunks(full_text)
    IN  [documents |-> Append(SelectSeq(docs, LAMBDA d : d.id # doc_id), row),
         chunks |-> SelectSeq(chks, LAMBDA c : c.doc_id # doc_id) \o
                    [i \in DOMAIN new |-> [doc_id |-> doc_id, chunk_type |-> new[i].type,
                                           chunk_index |-> i - 1, content |-> new[i].content]],
         ret |-> doc_id]

(***************************************************************************)
(* Chunk retrieval (cache.py get_relevant_chunks).                         *)
(***************************************************************************)
outlook_words ==
    <<<<"f","u","t","u","r","e">>,
      <<"p","l","a","n">>,
      <<"o","u","t","l","o","o","k">>,
      <<"g","u","i","d","a","n","c","e">>,
      <<"e","x","p","e","c","t">>,
      <<"t","a","r","g","e","t">>,
      <<"g","r","o","w","t","h">>>>
financial_words ==
    <<<<"r","e","v","e","n","u","e">>,
      <<"p","r","o","f","i","t">>,
      <<"m","a","r","g","i","n">>,
      <<"f","i","n","a","n","c","i","a","l">>,
      <<"r","e","s","u","l","t">>,
      <<"e","a","r","n","i","n","g">>>>
management_words ==
    <<<<"m","a","n","a","g","e","m","e","n","t">>,
      <<"s","a","i","d">>,
      <<"c","o","m","m","e","n","t">>,
      <<"q","u","e","s","t","i","o","n">>,
      <<"a","n","s","w","e","r">>>>
segment_words ==
    <<<<"s","e","g","m","e","n","t">>,
      <<"b","u","s","i","n","e","s","s">>,
      <<"r","e","t","a","i","l">>,
      <<"j","i","o">>,
      <<"d","i","g","i","t","a","l">>>>

\* any(w in query_lower for w in words)
any_in(words, query_lower) == \E i \in DOMAIN words : contains(query_lower, words[i])

\* Mutant of dedup: of a repeated element the last occurrence is kept.
RECURSIVE dedup_keep_last(_)
dedup_keep_last(xs) ==
    IF xs = <<>> THEN <<>>
    ELSE LET back == dedup_keep_last(Tail(xs))
         IN  IF xs[1] \in Range(back) THEN back ELSE <<xs[1]>> \o back

\* list(dict.fromkeys(xs)): duplicates removed, first occurrences kept
RECURSIVE dedup(_)
dedup(xs) ==
    IF xs = <<>> THEN <<>>
    ELSE LET front == dedup(SubSeq(xs, 1, Len(xs) - 1))
             last == xs[Len(xs)]
         IN  IF last \in Range(front) THEN front ELSE Append(front, last)

\* The chunk types get_relevant_chunks iterates (lines 307-327); chunk_types
\* is [none |-> TRUE] for None, else [none |-> FALSE, list |-> ...].
infer_chunk_types(query, chunk_types) ==
    LET query_lower == lower(query)
        inferred ==
            (IF any_in(outlook_words, query_lower) THEN <<"guidance", "summary">> ELSE <<>>)
            \o (IF any_in(financial_words, query_lower) THEN <<"financials", "summary">> ELSE <<>>)
            \o (IF any_in(management_words, query_lower) THEN <<"qa", "guidance">> ELSE <<>>)
            \o (IF any_in(segment_words, query_lower) THEN <<"segment">> ELSE <<>>)
    IN  dedup(IF chunk_types.none
              THEN (IF inferred = <<>> THEN <<"guidance", "summary", "financials">> ELSE inferred)
              ELSE chunk_types.list)

\* The sort of ORDER BY d.date DESC: dates are TEXT, compared as strings.
date_desc_less(x, y) == str_less(y.date, x.date)

RECURSIVE sort_date_desc(_)
sort_date_desc(xs) ==
    IF xs = <<>> THEN <<>>
    ELSE LET sorted == sort_date_desc(SubSeq(xs, 1, Len(xs) - 1))
             x == xs[Len(xs)]
         IN  insert_sorted(sorted, x,
                 Cardinality({i \in DOMAIN sorted : ~date_desc_less(x, sorted[i])}))

reverse(xs) == [i \in DOMAIN xs |-> xs[Len(xs) + 1 - i]]

\* Mutant of chunk_cursor: the rows come in table order, without ORDER BY.
chunk_cursor_unordered(docs, chks, company_code, chunk_type, rev) ==
    LET doc_of(c) == docs[CHOOSE i \in DOMAIN docs : docs[i].id = c.doc_id]
        hits == SelectSeq(chks, LAMBDA c :
                    /\ \E i \in DOMAIN docs : docs[i].id = c.doc_id
                    /\ doc_of(c).company_code = company_code
                    /\ c.chunk_type = chunk_type)
        rows == [i \in DOMAIN hits |->
                    LET d == doc_of(hits[i])
                    IN  [chunk_type |-> hits[i].chunk_type,
                         document_type |-> d.doc_type,
                         document_date |-> d.date,
                         date |-> d.date,
                         headline |-> d.headline,
                         company |-> d.company_name,
                         content |-> hits[i].content]]
    IN  IF rev THEN reverse(rows) ELSE rows

\* The rows of SELECT c.*, d.headline, d.date, d.doc_type, d.company_name FROM
\* chunks c JOIN documents d ON c.doc_id = d.id WHERE d.company_code = ? AND
\* c.chunk_type = ? ORDER BY d.date DESC.  SQL leaves the order of rows with
\* equal dates open: rev chooses between the two scan directions.
chunk_cursor(docs, chks, company_code, chunk_type, rev) ==
    LET doc_of(c) == docs[CHOOSE i \in DOMAIN docs : docs[i].id = c.doc_id]
        hits == SelectSeq(chks, LAMBDA c :
                    /\ \E i \in DOMAIN docs : docs[i].id = c.doc_id
                    /\ doc_of(c).company_code = company_code
                    /\ c.chunk_type = chunk_type)
        rows == [i \in DOMAIN hits |->
                    LET d == doc_of(hits[i])
                    IN  [chunk_type |-> hits[i].chunk_type,
                         document_type |-> d.doc_type,
                         document_date |-> d.date,
                         date |-> d.date,
                         headline |-> d.headline,
                         company |-> d.company_name,
                         content |-> hits[i].content]]
    IN  sort_date_desc(IF rev THEN reverse(rows) ELSE rows)

\* The candidate rows in the order get_relevant_chunks meets them: the
\* cursors of the chunk types, one after the other.
RECURSIVE candidates(_, _, _, _, _)
candidates(docs, chks, company_code, types, rev) ==
    IF types = <<>> THEN <<>>
    ELSE chunk_cursor(docs, chks, company_code, types[1], rev)
         \o candidates(docs, chks, company_code, Tail(types), rev)

\* The result entry built from a cursor row (lines 358-365).
result_entry(row) ==
    [chunk_type |-> row.chunk_type, document_type |-> row.document_type,
     document_date |-> row.document_date, headline |-> row.headline,
     company |-> row.company, content |-> row.content]

\* Mutant of select_row: the budget is tested before the row is added, not
\* with the row's length.
select_row_check_before(acc, row, max_chunks, max_chars) ==
    IF acc.stop \/ Len(acc.results) >= max_chunks \/ acc.total_chars >= max_chars
    THEN [acc EXCEPT !.stop = TRUE]
    ELSE [acc EXCEPT !.results = Append(@, result_entry(row)),
                     !.total_chars = @ + content_len(row.content)]

\* Mutant of select_row: the loop is left at the first row that does not fit
\* the character budget.
select_row_stop_at_misfit(acc, row, max_chunks, max_chars) ==
    IF acc.stop \/ Len(acc.results) >= max_chunks \/ acc.total_chars >= max_chars
    THEN [acc EXCEPT !.stop = TRUE]
    ELSE IF acc.total_chars + content_len(row.content) <= max_chars
    THEN [acc EXCEPT !.results = Append(@, result_entry(row)),
                     !.total_chars = @ + content_len(row.content)]
    ELSE [acc EXCEPT !.stop = TRUE]

\* One iteration of the inner loop (lines 350-366); stop records the break.
select_row(acc, row, max_chunks, max_chars) ==
    IF acc.stop \/ Len(acc.results) >= max_chunks \/ acc.total_chars >= max_chars
    THEN [acc EXCEPT !.stop = TRUE]
    ELSE IF acc.total_chars + content_len(row.content) <= max_chars
    THEN [acc EXCEPT !.results = Append(@, result_entry(row)),
                     !.total_chars = @ + content_len(row.content)]
    ELSE acc

RECURSIVE select_rows(_, _, _, _)
select_rows(acc, rows, max_chunks, max_chars) ==
    IF rows = <<>> THEN acc
    ELSE select_rows(select_row(acc, rows[1], max_chunks, max_chars), Tail(rows),
                     max_chunks, max_chars)

\* The outer loop over the chunk types (lines 338-366).  A break of the
\* inner loop ends one type; the test at the top of the outer loop is the
\* same test, so it breaks there too for the next type.
RECURSIVE select_types(_, _, _, _, _, _, _, _)
select_types(acc, docs, chks, company_code, types, rev, max_chunks, max_chars) ==
    IF types = <<>> THEN acc
    ELSE IF Len(acc.results) >= max_chunks \/ acc.total_chars >= max_chars THEN acc
    ELSE select_types(
             [select_rows(acc, chunk_cursor(docs, chks, company_code, types[1], rev),
                          max_chunks, max_chars) EXCEPT !.stop = FALSE],
             docs, chks, company_code, Tail(types), rev, max_chunks, max_chars)

\* get_company_documents(company_code)
get_company_documents(docs, company_code) ==
    sort_date_desc(SelectSeq(docs, LAMBDA d : d.company_code = company_code))

\* get_relevant_chunks(company_code, query, chunk_types, max_chunks, max_chars)
get_relevant_chunks(docs, chks, company_code, query, chunk_types, max_chunks, max_chars, rev) ==
    LET types == infer_chunk_types(query, chunk_types)
    IN  IF get_company_documents(docs, company_code) = <<>> THEN <<>>
        ELSE select_types([results |-> <<>>, total_chars |-> 0, stop |-> FALSE],
                          docs, chks, company_code, types, rev, max_chunks, max_chars).results

\* The queries and explicit type lists of the callers, and the limits: the
\* defaults (10, 50000), and tighter ones.
ChunkQueries ==
    {<<"a","l","l">>,
     <<"G","r","o","w","t","h"," ","p","l","a","n">>,
     <<"p","r","o","f","i","t"," ","o","u","t","l","o","o","k">>,
     <<"m","a","n","a","g","e","m","e","n","t"," ","s","a","i","d">>,
     <<"r","e","t","a","i","l"," ","s","e","g","m","e","n","t">>}
NoTypes == [none |-> TRUE, list |-> <<>>]
ChunkTypeArgs ==
    {[none |-> FALSE, list |-> <<"qa", "guidance", "qa">>],
     [none |-> FALSE, list |-> <<"general", "financials">>]}
RetrievalArgs ==
    [query : ChunkQueries, chunk_types : {NoTypes}]
        \cup [query : {<<"a","l","l">>}, chunk_types : ChunkTypeArgs]
Limits == {<<10, 50000>>, <<10, 4000>>, <<2, 4500>>, <<0, 50000>>, <<10, 0>>}

(***************************************************************************)
(* The calls on the document cache.                                        *)
(***************************************************************************)
\* cache_document(url, company_code, ..., date, full_text, ...)
CacheDocument(url, company_code, date, full_text) ==
    LET r == cache_document(documents, chunks, url, company_code, date, full_text, now)
    IN  /\ result = NoCall
        /\ documents' = r.documents
        /\ chunks' = r.chunks
        /\ result' = [op |-> "cache_document", url |-> url, company_code |-> company_code,
                      date |-> date, full_text |-> full_text, ret |-> r.ret,
                      \* the row counts of the REPLACE and of the DELETE
                      replaced |-> Len(documents) + 1 - Len(r.documents),
                      deleted |-> Len(chunks) + Len(create_smart_chunks(full_text))
                                      - Len(r.chunks)]
        /\ UNCHANGED <<securities, index, now, conn, threads>>

\* get_relevant_chunks(company_code, query, chunk_types, max_chunks, max_chars)
GetRelevantChunks(company_code, query, chunk_types, max_chunks, max_chars) ==
    \E rev \in BOOLEAN :
        /\ result = NoCall
        /\ result' = [op |-> "get_relevant_chunks", company_code |-> company_code,
                      query |-> query, chunk_types |-> chunk_types,
                      max_chunks |-> max_chunks, max_chars |-> max_chars,
                      types |-> infer_chunk_types(query, chunk_types),
                      cands |-> candidates(documents, chunks, company_code,
                                           infer_chunk_types(query, chunk_types), rev),
                      val |-> get_relevant_chunks(documents, chunks, company_code, query,
                                                  chunk_types, max_chunks, max_chars, rev)]
        /\ UNCHANGED <<securities, documents, chunks, index, now, conn, threads>>

\* Mutant of clear_company_cache: the documents of the company are deleted
\* and their chunks are left.
ClearCompanyCacheDocsOnly(company_code) ==
    LET doc_ids == {documents[i].id : i \in {j \in DOMAIN documents :
                                                documents[j].company_code = company_code}}
    IN  /\ result = NoCall
        /\ chunks' = chunks
        /\ documents' = SelectSeq(documents, LAMBDA d : d.company_code # company_code)
        /\ result' = [op |-> "clear_company_cache", company_code |-> company_code,
                      ret |-> Cardinality(doc_ids)]
        /\ UNCHANGED <<securities, index, now, conn, threads>>

\* clear_company_cache(company_code)
ClearCompanyCache(company_code) ==
    LET doc_ids == {documents[i].id : i \in {j \in DOMAIN documents :
                                                documents[j].company_code = company_code}}
    IN  /\ result = NoCall
        /\ chunks' = SelectSeq(chunks, LAMBDA c : c.doc_id \notin doc_ids)
        /\ documents' = SelectSeq(documents, LAMBDA d : d.company_code # company_code)
        /\ result' = [op |-> "clear_company_cache", company_code |-> company_code,
                      ret |-> Cardinality(doc_ids)]
        /\ UNCHANGED <<securities, index, now, conn, threads>>

\* clear_all_cache()
ClearAllCache ==
    /\ result = NoCall
    /\ chunks' = <<>>
    /\ documents' = <<>>
    /\ result' = [op |-> "clear_all_cache", ret |-> Len(documents)]
    /\ UNCHANGED <<securities, index, now, conn, threads>>

CacheDocumentCall ==
    \E url \in Urls, company_code \in Companies, date \in Dates, full_text \in Texts :
        CacheDocument(url, company_code, date, full_text)

GetRelevantChunksCall ==
    \E company_code \in Companies, a \in RetrievalArgs, lim \in Limits :
        GetRelevantChunks(company_code, a.query, a.chunk_types, lim[1], lim[2])

ClearCompanyCacheCall == \E company_code \in Companies : ClearCompanyCache(company_code)

NextCache ==
    CacheDocumentCall \/ GetRelevantChunksCall \/ ClearCompanyCacheCall \/ ClearAllCache
        \/ Return

SpecCache == Init /\ [][NextCache]_vars

Next == NextIndex \/ NextCache

Spec == Init /\ [][Next]_vars

(***************************************************************************)
(* Properties of SecurityIndex.resolve.  They are stated over the security *)
(* set the index holds, not over the lookup tables resolve reads.          *)
(***************************************************************************)
Resolved == result.op = "resolve" /\ result.status = "ok"
Raised == result.op = "resolve" /\ result.status = "error"
Matches == Range(result.val)
Loaded == Range(index.securities)

\* The securities each tier is there to find for the stripped query q.
CodeMatches(q) == {sec \in Loaded : isdigit(q) /\ sec.scrip_code = q}
IsinMatches(q) ==
    {sec \in Loaded : ISIN_PATTERN(q) /\ sec.isin # <<>> /\ upper(sec.isin) = upper(q)}
SymbolMatches(q) ==
    {sec \in Loaded : sec.scrip_id # <<>> /\ upper(sec.scrip_id) = upper(q)}
PrefixMatches(q) ==
    {sec \in Loaded : sec.scrip_id # <<>> /\ startswith(upper(sec.scrip_id), upper(q))}
SubstringMatches(q) ==
    {sec \in Loaded : \/ contains(lower(sec.scrip_name), lower(q))
                      \/ contains(lower(sec.issuer_name), lower(q))}

TierMatches(tier, q) ==
    CASE tier = "code" -> CodeMatches(q)
      [] tier = "isin" -> IsinMatches(q)
      [] tier = "symbol" -> SymbolMatches(q)
      [] tier = "prefix" -> PrefixMatches(q)
      [] tier = "substring" -> SubstringMatches(q)
      [] OTHER -> {}
TierScore(tier) ==
    CASE tier = "prefix" -> 95 [] tier = "substring" -> 90 [] OTHER -> 100

ExactTiers == <<"code", "isin", "symbol", "prefix", "substring">>
\* The first tier, in resolve's order, that has a match for q ("fuzzy": none has).
FirstTier(q) ==
    LET hit == {i \in DOMAIN ExactTiers : TierMatches(ExactTiers[i], q) # {}}
    IN  IF hit = {} THEN "fuzzy"
        ELSE ExactTiers[CHOOSE i \in hit : \A j \in hit : i <= j]

\* The security a returned match stands for, with the score taken off.
IsMatchOf(m, sec) == m = format_result(sec, m.score)

\* C1: a result comes from exactly one tier. When one of the code, ISIN,
\* exact-symbol, prefix or substring tiers has a match for the query, the
\* result is not the fuzzy tier's, and every match in it is a match of the
\* first such tier with that tier's score: no match of another tier is mixed in.
Thm_C1_OneTier ==
    (Resolved /\ strip(result.query) # <<>>) =>
        LET q == strip(result.query)
            t == FirstTier(q)
        IN  /\ t # "fuzzy" =>
                 /\ result.tier # "fuzzy"
                 /\ \A m \in Matches :
                        /\ m.score = TierScore(t)
                        /\ \E sec \in TierMatches(t, q) : IsMatchOf(m, sec)
            /\ t = "fuzzy" => result.tier \in {"code", "isin", "fuzzy"}

\* C1 witness: a query with substring matches, on an index with securities the
\* substring tier does not match, answered with more than one match.
Wit_C1_OneTier ==
    /\ Resolved
    /\ FirstTier(strip(result.query)) = "substring"
    /\ Len(result.val) >= 2
    /\ SubstringMatches(strip(result.query)) # Loaded

\* C2: a purely numeric query equal to the code of a loaded security returns
\* exactly one match, with that code and score 100, whatever top_n and cutoff.
Thm_C2_CodeHit ==
    (Resolved /\ isdigit(strip(result.query))
        /\ \E sec \in Loaded : sec.scrip_code = strip(result.query)) =>
        /\ Len(result.val) = 1
        /\ result.val[1].scrip_code = strip(result.query)
        /\ result.val[1].score = 100

\* C2 witness: a code hit with top_n = 0 and a query that needed stripping.
Wit_C2_CodeHit ==
    /\ Resolved
    /\ result.top_n = 0
    /\ isdigit(strip(result.query))
    /\ \E sec \in Loaded : sec.scrip_code = strip(result.query)

\* C3: a purely numeric or ISIN-shaped query with no security of exactly that
\* code or ISIN returns the empty list, also when a symbol or name matches it.
Thm_C3_NoFallback ==
    LET q == strip(result.query)
    IN  (/\ Resolved
         /\ \/ (isdigit(q) /\ \A sec \in Loaded : sec.scrip_code # q)
            \/ (~isdigit(q) /\ ISIN_PATTERN(q)
                  /\ \A sec \in Loaded : sec.isin = <<>> \/ upper(sec.isin) # upper(q)))
        => result.val = <<>>

\* C3 witness (numeric): the query is no code, and a loaded symbol starts with it.
Wit_C3_NoFallback ==
    /\ Resolved
    /\ isdigit(strip(result.query))
    /\ CodeMatches(strip(result.query)) = {}
    /\ PrefixMatches(strip(result.query)) # {}
    /\ result.top_n > 0

\* C3, ISIN-shaped case reached: the query is no ISIN of the set and is the
\* symbol of a loaded security.
Wit_C3_IsinShapedSymbol ==
    /\ Resolved
    /\ ISIN_PATTERN(strip(result.query))
    /\ IsinMatches(strip(result.query)) = {}
    /\ SymbolMatches(strip(result.query)) # {}

\* C8 as claimed: resolve with an empty or whitespace-only query returns the
\* empty list and does not fail, in every state and with or without a provider.
Cex_C8_EmptyQueryNeverFails ==
    (result.op = "resolve" /\ strip(result.query) = <<>>) =>
        (result.status = "ok" /\ result.val = <<>>)

\* C8 amended: resolve with an empty or whitespace-only query raises exactly
\* when no provider handle is given and the store has no securities (the
\* index is then unloaded); in every other case it returns the empty list.
Thm_C8_EmptyQuery ==
    (result.op = "resolve" /\ strip(result.query) = <<>>) =>
        /\ result.status = "error" <=> (~result.has_bse /\ securities = <<>>)
        /\ result.status = "ok" => result.val = <<>>
        /\ result.status = "error" => ~index.loaded

\* C8 witness: a whitespace-only query answered with the empty list from a
\* loaded, non-empty index.
Wit_C8_EmptyQuery ==
    /\ Resolved
    /\ result.query # <<>>
    /\ strip(result.query) = <<>>
    /\ index.loaded
    /\ index.by_symbol # <<>>

IsStale(rows, t) ==
    rows # <<>> /\ \E i \in DOMAIN rows : t - rows[i].cached_at >= SECURITIES_TTL_HOURS

\* C9: with a non-empty stored set older than the threshold, an unloaded index
\* and no provider handle, resolve does not fail: it leaves the store as it
\* is, builds the index from the stale rows and answers from them (a code of
\* the stale set is found; every match is a stale row).
Thm_C9_StaleStore ==
    [][(/\ result = NoCall
        /\ ~index.loaded
        /\ IsStale(securities, now)
        /\ result'.op = "resolve"
        /\ ~result'.has_bse)
       => (/\ result'.status = "ok"
           /\ securities' = securities
           /\ index'.loaded
           /\ index'.securities = securities
           /\ \A i \in DOMAIN securities :
                  /\ dict_has(index'.by_code, securities[i].scrip_code)
                  /\ dict_get(index'.by_code, securities[i].scrip_code) = securities[i]
           /\ \A m \in Range(result'.val) :
                  \E i \in DOMAIN securities : m = format_result(securities[i], m.score)
           /\ (\E i \in DOMAIN securities : securities[i].scrip_code = strip(result'.query))
                  => result'.val # <<>>)]_vars

\* C9 witness: a call without provider handle has just loaded the index from
\* stored rows that are 24 hours old or older, and found a match.
Wit_C9_StaleStore ==
    /\ Resolved
    /\ ~result.has_bse
    /\ result.load = "store"
    /\ IsStale(securities, now)
    /\ result.val # <<>>

\* C10: with an empty stored set and no provider handle, resolve with a
\* non-empty query raises; the index stays unloaded and the store unchanged.
Thm_C10_NoSource ==
    [][(/\ result = NoCall
        /\ securities = <<>>
        /\ result'.op = "resolve"
        /\ ~result'.has_bse
        /\ strip(result'.query) # <<>>)
       => (/\ result'.status = "error"
           /\ index' = index
           /\ ~index'.loaded
           /\ securities' = <<>>)]_vars

\* C10 witness: a resolve with a non-empty query has raised.
Wit_C10_NoSource ==
    /\ Raised
    /\ strip(result.query) # <<>>
    /\ ~result.has_bse
    /\ securities = <<>>

(***************************************************************************)
(* Properties of the document cache and of chunk retrieval.                *)
(***************************************************************************)
Cached == result.op = "cache_document"
Retrieved == result.op = "get_relevant_chunks"

\* The rows of table chunks of one document, in chunk_index order.
ChunksOf(chks, doc_id) ==
    LET rows == SelectSeq(chks, LAMBDA c : c.doc_id = doc_id)
        less(x, y) == x.chunk_index < y.chunk_index
        RECURSIVE by_index(_)
        by_index(xs) ==
            IF xs = <<>> THEN <<>>
            ELSE LET sorted == by_index(SubSeq(xs, 1, Len(xs) - 1))
                     x == xs[Len(xs)]
                 IN  insert_sorted(sorted, x,
                         Cardinality({i \in DOMAIN sorted : ~less(x, sorted[i])}))
    IN  by_index(rows)

\* The pages of a sequence of chunks, read in order.
RECURSIVE PagesOf(_)
PagesOf(rows) == IF rows = <<>> THEN <<>> ELSE rows[1].content \o PagesOf(Tail(rows))

NonBlank(text) == SelectSeq(text, LAMBDA page : ~page.blank)

\* C4: caching a URL that is already cached returns the id the document is
\* stored under since the first call (every call returns the id it stores the
\* document under), and afterwards the chunks of that id hold the non-blank
\* pages of the second text, each once and in order, and nothing else.
Thm_C4_Recache ==
    [][(result = NoCall /\ result'.op = "cache_document") =>
         LET id == result'.ret
             mine == ChunksOf(chunks', id)
         IN  /\ \E i \in DOMAIN documents' :
                    /\ documents'[i].url = result'.url
                    /\ documents'[i].id = id
                    /\ documents'[i].full_text = result'.full_text
             /\ \A i \in DOMAIN documents : documents[i].url = result'.url => documents[i].id = id
             /\ PagesOf(mine) = NonBlank(result'.full_text)
             /\ \A k \in DOMAIN mine : mine[k].chunk_index = k - 1]_vars

\* C4 witness: a URL has been cached again, with a text of two chunks where
\* the text cached before had three, next to another document.
Wit_C4_Recache ==
    /\ Cached
    /\ result.replaced = 1
    /\ result.deleted = 3
    /\ Len(ChunksOf(chunks, result.ret)) = 2
    /\ Len(documents) = 2

RECURSIVE SumContent(_)
SumContent(entries) ==
    IF entries = <<>> THEN 0 ELSE content_len(entries[1].content) + SumContent(Tail(entries))

\* C5: get_relevant_chunks returns at most max_chunks entries, of at most
\* max_chars characters in total.
Thm_C5_Limits ==
    Retrieved =>
        /\ Len(result.val) <= result.max_chunks
        /\ SumContent(result.val) <= result.max_chars

\* C5 witness: both limits are met with candidates left over.
Wit_C5_Limits ==
    /\ Retrieved
    /\ result.max_chunks = 2
    /\ Len(result.val) = 2
    /\ Len(result.cands) > 2
    /\ SumContent(result.val) + content_len(result.cands[Len(result.cands)].content)
           > result.max_chars

\* The subsequence of xs at the positions S.
Sub(xs, S) == SelectSeq([i \in DOMAIN xs |-> [pos |-> i, x |-> xs[i]]], LAMBDA e : e.pos \in S)

Cex_C7_ChunkSizeBounded ==
    \A i \in DOMAIN chunks : content_len(chunks[i].content) <= max_chunk_size

(***************************************************************************)
(* Properties of the securities refresh (_fetch_and_cache).                *)
(***************************************************************************)
Refreshed == result.op = "resolve" /\ result.load = "fetch"
CodesOf(rows) == {rows[i].scrip_code : i \in DOMAIN rows}
\* What each listing of the provider makes _fetch_and_cache collect.
Fetched == [world \in Worlds |-> fetch_all(world)]

\* C11: a refresh whose fetch yields no security in any group leaves the
\* stored set as it is and, when that set is not empty, builds the index from
\* it: the index is loaded and holds every stored row.
Thm_C11_EmptyFetch ==
    [][(/\ result = NoCall
        /\ result'.op = "resolve"
        /\ result'.load = "fetch"
        /\ Fetched[result'.world] = <<>>)
       => (/\ securities' = securities
           /\ securities # <<>> =>
                 /\ index'.loaded
                 /\ index'.securities = securities
                 /\ Len(index'.search_corpus) = Len(securities)
                 /\ \A i \in DOMAIN securities :
                        /\ dict_has(index'.by_code, securities[i].scrip_code)
                        /\ dict_get(index'.by_code, securities[i].scrip_code) = securities[i])]_vars

\* C11 witness: a refresh over a stale, non-empty store fetched nothing and
\* the call answered from the stored rows.
Wit_C11_EmptyFetch ==
    /\ Refreshed
    /\ Fetched[result.world] = <<>>
    /\ securities # <<>>
    /\ index.loaded
    /\ result.val # <<>>

\* C12: after a refresh that fetched at least one security, every stored row
\* is the row of a fetched record (so no row of the previous set is left
\* unless its code was fetched again), every fetched code is stored, and all
\* rows carry the one timestamp of the refresh.
Thm_C12_Replaced ==
    [][(/\ result = NoCall
        /\ result'.op = "resolve"
        /\ result'.load = "fetch"
        /\ Fetched[result'.world] # <<>>)
       => LET fetched == Fetched[result'.world]
          IN  /\ \A i \in DOMAIN securities' :
                     /\ securities'[i].cached_at = now
                     /\ \E k \in DOMAIN fetched : securities'[i] = securities_row(fetched[k], now)
              /\ \A k \in DOMAIN fetched :
                     securities_row(fetched[k], now).scrip_code \in CodesOf(securities')
              /\ \A i, j \in DOMAIN securities' :
                     securities'[i].cached_at = securities'[j].cached_at]_vars

\* C12 witness: a refresh has replaced a set that held a code the provider no
\* longer lists, and rows cached earlier.
Wit_C12_Replaced ==
    /\ Refreshed
    /\ Fetched[result.world] # <<>>
    /\ \E c \in result.prev : c \notin CodesOf(securities)
    /\ now > 0
    /\ Len(securities) >= 2

(***************************************************************************)
(* Properties of the stored documents and chunks, and of the type list and *)
(* the order of the retrieved chunks.                                      *)
(***************************************************************************)
\* C16: after any sequence of cache_document, clear_company_cache and
\* clear_all_cache calls no two document rows have the same URL.
Thm_C16_UrlUnique ==
    \A i, j \in DOMAIN documents : documents[i].url = documents[j].url => i = j

\* C16 witness: a URL cached for one company has been cached again for
\* another one, next to a document of another URL.
Wit_C16_UrlUnique ==
    /\ Cached
    /\ result.replaced = 1
    /\ Len(documents) = 2
    /\ documents[1].company_code # documents[2].company_code
    /\ documents[2].url = result.url

\* C17: the chunks stored for a document have the indexes 0, 1, ..., n-1,
\* each once, and read in index order they hold the non-blank pages of the
\* document's full text in the order of the text.
Thm_C17_IndexOrder ==
    \A d \in DOMAIN documents :
        LET mine == ChunksOf(chunks, documents[d].id)
        IN  /\ \A k \in DOMAIN mine : mine[k].chunk_index = k - 1
            /\ PagesOf(mine) = NonBlank(documents[d].full_text)

\* C17 witness: a document of three chunks has replaced an earlier caching
\* of its URL that had two, with the chunks of another document stored before.
Wit_C17_IndexOrder ==
    /\ Cached
    /\ result.replaced = 1
    /\ result.deleted = 2
    /\ Len(ChunksOf(chunks, result.ret)) = 3
    /\ Len(documents) = 2
    /\ chunks[1].doc_id # result.ret

\* The first of guidance, financials, qa, segment, summary that has a cue
\* matching the page; general when none has.
FirstCue(page) ==
    IF "guidance" \in page.cues THEN "guidance"
    ELSE IF "financials" \in page.cues THEN "financials"
    ELSE IF "qa" \in page.cues THEN "qa"
    ELSE IF "segment" \in page.cues THEN "segment"
    ELSE IF "summary" \in page.cues THEN "summary"
    ELSE "general"

\* C18: every non-blank page of a cached text lies in a chunk, and the type
\* of the chunk is the first type, in the order guidance, financials, qa,
\* segment, summary, with a cue matching the page, or general when no cue of
\* any type matches it.
Thm_C18_FirstCue ==
    /\ \A i \in DOMAIN chunks : \A k \in DOMAIN chunks[i].content :
           chunks[i].chunk_type = FirstCue(chunks[i].content[k])
    /\ \A d \in DOMAIN documents : \A p \in DOMAIN documents[d].full_text :
           ~documents[d].full_text[p].blank =>
               \E i \in DOMAIN chunks :
                   /\ chunks[i].doc_id = documents[d].id
                   /\ documents[d].full_text[p] \in Range(chunks[i].content)

\* C18 witness: a page with guidance and financials cues is stored as
\* guidance in a chunk of two pages, and a page with qa and segment cues as qa.
Wit_C18_FirstCue ==
    /\ \E i \in DOMAIN chunks :
           /\ Len(chunks[i].content) = 2
           /\ \E k \in DOMAIN chunks[i].content : Cardinality(chunks[i].content[k].cues) = 2
    /\ \E i \in DOMAIN chunks :
           chunks[i].chunk_type = "qa" /\ "segment" \in chunks[i].content[1].cues

\* The keyword groups in their fixed order, with the types each one adds.
KeywordGroups ==
    <<[words |-> outlook_words, types |-> <<"guidance", "summary">>],
      [words |-> financial_words, types |-> <<"financials", "summary">>],
      [words |-> management_words, types |-> <<"qa", "guidance">>],
      [words |-> segment_words, types |-> <<"segment">>]>>

\* The type lists of the groups from g on that match the query, concatenated.
RECURSIVE GroupTypes(_, _)
GroupTypes(g, query) ==
    IF g > Len(KeywordGroups) THEN <<>>
    ELSE (IF any_in(KeywordGroups[g].words, lower(query))
          THEN KeywordGroups[g].types ELSE <<>>) \o GroupTypes(g + 1, query)

FirstPos(xs, x) == CHOOSE i \in DOMAIN xs : xs[i] = x /\ \A j \in 1..(i - 1) : xs[j] # x

\* C19: without explicit chunk types the type list used holds exactly the
\* types of the keyword groups that match the query, or guidance, summary,
\* financials when none matches, each once, ordered by first occurrence in
\* the concatenation of the groups' lists; it is never empty.
Thm_C19_InferredTypes ==
    (Retrieved /\ result.chunk_types.none) =>
        LET concat == GroupTypes(1, result.query)
            base == IF concat = <<>> THEN <<"guidance", "summary", "financials">> ELSE concat
            types == result.types
        IN  /\ types # <<>>
            /\ \A i, j \in DOMAIN types : types[i] = types[j] => i = j
            /\ Range(types) = Range(base)
            /\ \A i, j \in DOMAIN types :
                   i < j => FirstPos(base, types[i]) < FirstPos(base, types[j])

\* C19 witness: two groups match the query and share a type.
Wit_C19_InferredTypes ==
    /\ Retrieved
    /\ result.chunk_types.none
    /\ Len(GroupTypes(1, result.query)) = 4
    /\ Len(result.types) = 3
    /\ result.val # <<>>

\* C20: in the returned list a chunk of a type that is earlier in the type
\* list used comes before every chunk of a later type, and among chunks of
\* one type the document dates do not increase.
Thm_C20_TypeThenDate ==
    Retrieved =>
        \A i, j \in DOMAIN result.val :
            i < j =>
                /\ result.val[i].chunk_type \in Range(result.types)
                /\ result.val[j].chunk_type \in Range(result.types)
                /\ FirstPos(result.types, result.val[i].chunk_type)
                       <= FirstPos(result.types, result.val[j].chunk_type)
                /\ result.val[i].chunk_type = result.val[j].chunk_type =>
                       ~str_less(result.val[i].document_date, result.val[j].document_date)

\* C20 witness: chunks of two types are returned, two of one type from
\* documents of different dates, the older document cached first.
Wit_C20_TypeThenDate ==
    /\ Retrieved
    /\ Len(documents) = 2
    /\ str_less(documents[1].date, documents[2].date)
    /\ \E i, j \in DOMAIN result.val :
           /\ i < j
           /\ result.val[i].chunk_type = result.val[j].chunk_type
           /\ str_less(result.val[j].document_date, result.val[i].document_date)
    /\ \E i, j \in DOMAIN result.val : result.val[i].chunk_type # result.val[j].chunk_type

(***************************************************************************)
(* The store under several connections (cache.py).  Every function opens   *)
(* its own connection with sqlite3.connect in the default transaction      *)
(* mode: the first INSERT, REPLACE or DELETE opens a transaction, its      *)
(* statements are pending in the connection until conn.commit(), and a     *)
(* connection dropped before conn.commit() loses them.  SQLite lets one    *)
(* connection at a time hold the write lock: conn is that connection.      *)
(* securities, documents and chunks are the committed tables, which is     *)
(* what every other connection reads.                                      *)
(***************************************************************************)
Tables(secs, docs, chks) == [securities |-> secs, documents |-> docs, chunks |-> chks]
Store == Tables(securities, documents, chunks)

\* One statement of save_securities or cache_document applied to the tables.
apply(tables, stmt) ==
    CASE stmt.sql = "DELETE FROM securities" ->
             [tables EXCEPT !.securities = <<>>]
      [] stmt.sql = "INSERT OR REPLACE INTO securities" ->
             [tables EXCEPT !.securities = insert_or_replace(tables.securities, stmt.row)]
      [] stmt.sql = "INSERT OR REPLACE INTO documents" ->
             [tables EXCEPT !.documents =
                  Append(SelectSeq(tables.documents, LAMBDA d : d.id # stmt.row.id), stmt.row)]
      [] stmt.sql = "DELETE FROM chunks WHERE doc_id = ?" ->
             [tables EXCEPT !.chunks =
                  SelectSeq(tables.chunks, LAMBDA c : c.doc_id # stmt.doc_id)]
      [] stmt.sql = "INSERT INTO chunks" ->
             [tables EXCEPT !.chunks = Append(tables.chunks, stmt.row)]

\* Mutant of execute: a connection in autocommit mode, every statement is
\* committed as it is executed.
execute_autocommit(c, db, stmt) ==
    [conn |-> [c EXCEPT !.view = apply(c.view, stmt)], db |-> apply(db, stmt)]

\* conn.execute(stmt) of a writing statement: the connection sees its effect,
\* the committed tables db do not change.
execute(c, db, stmt) ==
    [conn |-> [c EXCEPT !.view = apply(c.view, stmt)], db |-> db]

\* conn.commit(): the committed tables become what the connection sees.
commit(c, db) == c.view

\* Mutant of rollback: what the connection had written when the call failed
\* is kept.
rollback_partial(c, db) == c.view

\* An exception leaves the function before conn.commit(): the connection is
\* dropped and its pending statements are lost.
rollback(c, db) == db

SetStore(db) ==
    /\ securities' = db.securities
    /\ documents' = db.documents
    /\ chunks' = db.chunks

\* The lists _fetch_and_cache passes to save_securities, the documents that
\* are cached, and the cursors that are read.
SavedLists == {fetch_all(world) : world \in {w \in Worlds : Cardinality(w.avail) \in {3, 4}}}
TxnTexts == {text \in Texts : PgBig \notin Range(text) /\ PgN \notin Range(text)}
TxnCompany == <<"5","0","0">>
TxnDate == <<"1","0">>
TxnTypes == {"guidance", "qa"}

\* The documents row cache_document writes (lines 199-208).
document_row(url, company_code, date, full_text, t) ==
    [id |-> doc_id_from_url(url), company_code |-> company_code,
     company_name |-> company_name(company_code), doc_type |-> "transcript",
     headline |-> "headline", url |-> url, date |-> date,
     full_text |-> full_text, pages |-> Len(full_text), ocr_used |-> 0,
     cached_at |-> t, file_size |-> text_len(full_text)]

\* save_securities(securities) is called: get_cache_db() and now.
SaveSecuritiesBegin(secs) ==
    /\ result = NoCall
    /\ conn = NoConn
    /\ conn' = [op |-> "save_securities", pc |-> "delete", secs |-> secs, t |-> now,
                i |-> 1, view |-> Store, before |-> Store]
    /\ UNCHANGED <<securities, documents, chunks, index, now, result, threads>>

\* The next statement of save_securities (lines 103-121).
SaveSecuritiesStep ==
    /\ result = NoCall
    /\ conn.op = "save_securities"
    /\ CASE conn.pc = "delete" ->
              LET r == execute(conn, Store, [sql |-> "DELETE FROM securities"])
              IN  /\ conn' = [r.conn EXCEPT !.pc = IF conn.secs = <<>> THEN "commit" ELSE "insert"]
                  /\ SetStore(r.db)
                  /\ UNCHANGED result
         [] conn.pc = "insert" ->
              LET r == execute(conn, Store,
                               [sql |-> "INSERT OR REPLACE INTO securities",
                                row |-> securities_row(conn.secs[conn.i], conn.t)])
              IN  /\ conn' = [r.conn EXCEPT !.i = conn.i + 1,
                                            !.pc = IF conn.i = Len(conn.secs)
                                                   THEN "commit" ELSE "insert"]
                  /\ SetStore(r.db)
                  /\ UNCHANGED result
         [] conn.pc = "commit" ->
              /\ SetStore(commit(conn, Store))
              /\ conn' = NoConn
              /\ result' = [op |-> "save_securities", status |-> "ok",
                            ret |-> Len(conn.view.securities)]
    /\ UNCHANGED <<index, now, threads>>

\* cache_document(url, ...) is called: get_cache_db().
CacheDocumentBegin(url, full_text) ==
    /\ result = NoCall
    /\ conn = NoConn
    /\ conn' = [op |-> "cache_document", pc |-> "upsert", url |-> url,
                company_code |-> TxnCompany, date |-> TxnDate, full_text |-> full_text,
                t |-> now, new |-> <<>>, i |-> 1, view |-> Store, before |-> Store]
    /\ UNCHANGED <<securities, documents, chunks, index, now, result, threads>>

\* The next statement of cache_document (lines 199-223).
CacheDocumentStep ==
    /\ result = NoCall
    /\ conn.op = "cache_document"
    /\ CASE conn.pc = "upsert" ->
              LET r == execute(conn, Store,
                               [sql |-> "INSERT OR REPLACE INTO documents",
                                row |-> document_row(conn.url, conn.company_code, conn.date,
                                                     conn.full_text, conn.t)])
              IN  /\ conn' = [r.conn EXCEPT !.pc = "delete"]
                  /\ SetStore(r.db)
                  /\ UNCHANGED result
         [] conn.pc = "delete" ->
              LET r == execute(conn, Store,
                               [sql |-> "DELETE FROM chunks WHERE doc_id = ?",
                                doc_id |-> doc_id_from_url(conn.url)])
              IN  /\ conn' = [r.conn EXCEPT !.pc = "chunk"]
                  /\ SetStore(r.db)
                  /\ UNCHANGED result
         [] conn.pc = "chunk" ->
              LET new == create_smart_chunks(conn.full_text)
              IN  /\ conn' = [conn EXCEPT !.new = new,
                                          !.pc = IF new = <<>> THEN "commit" ELSE "insert"]
                  /\ UNCHANGED <<securities, documents, chunks, result>>
         [] conn.pc = "insert" ->
              LET chunk == conn.new[conn.i]
                  r == execute(conn, Store,
                               [sql |-> "INSERT INTO chunks",
                                row |-> [doc_id |-> doc_id_from_url(conn.url),
                                         chunk_type |-> chunk.type,
                                         chunk_index |-> conn.i - 1,
                                         content |-> chunk.content]])
              IN  /\ conn' = [r.conn EXCEPT !.i = conn.i + 1,
                                            !.pc = IF conn.i = Len(conn.new)
                                                   THEN "commit" ELSE "insert"]
                  /\ SetStore(r.db)
                  /\ UNCHANGED result
         [] conn.pc = "commit" ->
              /\ SetStore(commit(conn, Store))
              /\ conn' = NoConn
              /\ result' = [op |-> "cache_document", status |-> "ok", url |-> conn.url,
                            full_text |-> conn.full_text,
                            ret |-> doc_id_from_url(conn.url)]
    /\ UNCHANGED <<index, now, threads>>

\* The statement the writer is at raises (an sqlite3 error, or an exception
\* of create_smart_chunks): the call ends without conn.commit().
WriteFails ==
    /\ result = NoCall
    /\ conn # NoConn
    /\ SetStore(rollback(conn, Store))
    /\ conn' = NoConn
    /\ result' = [op |-> conn.op, status |-> "error", failed_at |-> conn.pc, i |-> conn.i,
                  url |-> IF conn.op = "cache_document" THEN conn.url ELSE "",
                  full_text |-> IF conn.op = "cache_document" THEN conn.full_text ELSE <<>>]
    /\ UNCHANGED <<index, now, threads>>

\* load_securities() on a connection of its own; writer is the state of the
\* writing connection at the time of the SELECT.
LoadSecurities ==
    /\ result = NoCall
    /\ result' = [op |-> "load_securities", val |-> load_securities(securities),
                  writer |-> conn]
    /\ UNCHANGED <<securities, documents, chunks, index, now, conn, threads>>

\* The SELECT of get_relevant_chunks for one chunk type, on a connection of
\* its own.
ReadChunks(company_code, chunk_type) ==
    \E rev \in BOOLEAN :
        /\ result = NoCall
        /\ result' = [op |-> "chunk_cursor", company_code |-> company_code,
                      chunk_type |-> chunk_type, rev |-> rev,
                      val |-> chunk_cursor(documents, chunks, company_code, chunk_type, rev),
                      writer |-> conn]
        /\ UNCHANGED <<securities, documents, chunks, index, now, conn, threads>>

SaveSecuritiesCall == \E secs \in SavedLists : SaveSecuritiesBegin(secs)
CacheDocumentTxnCall == \E url \in Urls, full_text \in TxnTexts : CacheDocumentBegin(url, full_text)
ReadChunksCall == \E chunk_type \in TxnTypes : ReadChunks(TxnCompany, chunk_type)

NextTxn ==
    \/ SaveSecuritiesCall
    \/ SaveSecuritiesStep
    \/ CacheDocumentTxnCall
    \/ CacheDocumentStep
    \/ WriteFails
    \/ LoadSecurities
    \/ ReadChunksCall
    \/ Return

SpecTxn == Init /\ [][NextTxn]_vars

(***************************************************************************)
(* Properties of the store under a concurrent reader and under failures.   *)
(***************************************************************************)
\* A SELECT made while a write transaction is open gives what it would have
\* given before the writer's first statement.
ReadSeesBefore ==
    /\ (result.op = "load_securities" /\ result.writer # NoConn) =>
           result.val = load_securities(result.writer.before.securities)
    /\ (result.op = "chunk_cursor" /\ result.writer # NoConn) =>
           result.val = chunk_cursor(result.writer.before.documents,
                                     result.writer.before.chunks,
                                     result.company_code, result.chunk_type, result.rev)

\* The committed tables change only in the commit step of a writer, and then
\* to the outcome of the whole save_securities or cache_document.
CommitIsWhole ==
    /\ securities' # securities =>
           /\ conn.op = "save_securities" /\ conn.pc = "commit"
           /\ securities' = save_securities(conn.secs, conn.t)
    /\ <<documents', chunks'>> # <<documents, chunks>> =>
           /\ conn.op = "cache_document" /\ conn.pc = "commit"
           /\ LET r == cache_document(documents, chunks, conn.url, conn.company_code,
                                      conn.date, conn.full_text, conn.t)
              IN  documents' = r.documents /\ chunks' = r.chunks

\* C13: a reader that runs while save_securities or cache_document is
\* writing sees the tables as they were before the writer's first statement,
\* never the old rows deleted and the new ones not yet inserted; the tables
\* readers see change in one step, at the commit, to the outcome of the whole
\* operation.
Thm_C13_AtomicWrites == [](ReadSeesBefore) /\ [][CommitIsWhole]_vars

\* C13 witness: load_securities has run after save_securities deleted the
\* rows of a non-empty table and before it inserted any, and got the old rows.
Wit_C13_AtomicWrites ==
    /\ result.op = "load_securities"
    /\ result.writer # NoConn
    /\ result.writer.op = "save_securities"
    /\ result.writer.pc = "insert"
    /\ result.writer.view.securities = <<>>
    /\ result.val # <<>>

\* C13, document case reached: the chunks of a document were read after a
\* re-cache deleted them and before it inserted all the new ones.
Wit_C13_RecacheRead ==
    /\ result.op = "chunk_cursor"
    /\ result.writer # NoConn
    /\ result.writer.op = "cache_document"
    /\ result.writer.pc = "insert"
    /\ result.writer.i = 2
    /\ result.val # <<>>
    /\ result.val # chunk_cursor(result.writer.view.documents, result.writer.view.chunks,
                                 result.company_code, result.chunk_type, result.rev)

\* The chunk rows of every stored document are those of its full text.
StoredDocsComplete ==
    \A d \in DOMAIN documents :
        LET mine == ChunksOf(chunks, documents[d].id)
            new == create_smart_chunks(documents[d].full_text)
        IN  /\ Len(mine) = Len(new)
            /\ \A k \in DOMAIN mine :
                   /\ mine[k].chunk_index = k - 1
                   /\ mine[k].chunk_type = new[k].type
                   /\ mine[k].content = new[k].content

FailureKeepsPrevious ==
    (conn.op = "cache_document" /\ result'.op = "cache_document" /\ result'.status = "error") =>
        /\ documents' = documents
        /\ chunks' = chunks
        /\ Store' = conn.before

\* C15: when cache_document fails at any statement after it began to write,
\* the store is as it was before the call; no stored document is ever left
\* with chunks other than the full chunk sequence of its text.
Thm_C15_AllOrNothing == [](StoredDocsComplete) /\ [][FailureKeepsPrevious]_vars

\* C15 witness: a re-cache of a stored document with another text failed
\* after it had deleted the old chunks and inserted the first new one.
Wit_C15_AllOrNothing ==
    /\ result.op = "cache_document"
    /\ result.status = "error"
    /\ result.failed_at = "insert"
    /\ result.i = 2
    /\ \E d \in DOMAIN documents :
           /\ documents[d].url = result.url
           /\ documents[d].full_text # result.full_text
           /\ ChunksOf(chunks, documents[d].id) # <<>>

(***************************************************************************)
(* Two threads inside SecurityIndex.resolve on the shared instance         *)
(* (resolver.py).  The class takes no lock, so a thread may be switched    *)
(* out between any two statements; the steps below are _ensure_loaded's    *)
(* test and load, the assignments at the top of _build_index, one          *)
(* iteration of its loop, its last line, and the lookups of resolve.       *)
(* A switch inside one of these steps is not modelled: every behaviour of  *)
(* the model is one of the code.                                           *)
(***************************************************************************)
\* top_n and cutoff of resolve when the caller gives none
DefaultTopN == 5
DefaultCutoff == 60

\* The store a process finds at its start: the rows an earlier refresh saved.
StoredRows == save_securities(fetch_all(CHOOSE w \in Worlds : w.failing = {"B"}), 0)
ThreadQueries == {<<"5","0","0">>, <<"5","2","3">>}

InitThreads ==
    /\ securities = StoredRows
    /\ documents = <<>>
    /\ chunks = <<>>
    /\ index = NewIndex
    /\ now = 0
    /\ result = NoCall
    /\ conn = NoConn
    /\ threads = NoThreads

\* resolve(query) is called in thread th.
ThreadCall(th, query) ==
    /\ result = NoCall
    /\ threads[th].pc = "idle"
    /\ threads' = [threads EXCEPT ![th] = [pc |-> "ensure", query |-> query,
                                           cached |-> <<>>, i |-> 1]]
    /\ UNCHANGED <<securities, documents, chunks, index, now, result, conn>>

\* _ensure_loaded(None) up to the call of _build_index (lines 38-55).
ThreadEnsure(th) ==
    LET e == ensure_loaded(index, securities, now, FALSE)
    IN  /\ result = NoCall
        /\ threads[th].pc = "ensure"
        /\ CASE e.kind = "raise" ->
                  /\ threads' = [threads EXCEPT ![th] = [pc |-> "idle"]]
                  /\ result' = [op |-> "resolve", thread |-> th,
                                query |-> threads[th].query, status |-> "error",
                                tier |-> "none", val |-> <<>>, seen |-> index]
             [] e.kind = "return" /\ index.loaded ->
                  /\ threads' = [threads EXCEPT ![th].pc = "resolve"]
                  /\ UNCHANGED result
             [] OTHER ->
                  /\ threads' = [threads EXCEPT ![th].pc = "build",
                                                ![th].cached = load_securities(securities)]
                  /\ UNCHANGED result
        /\ UNCHANGED <<securities, documents, chunks, index, now, conn>>

\* _build_index, lines 92-96: the instance's list is replaced and its tables
\* are emptied; _loaded is not touched.
ThreadBuildReset(th) ==
    /\ result = NoCall
    /\ threads[th].pc = "build"
    /\ index' = [NewIndex EXCEPT !.securities = threads[th].cached, !.loaded = index.loaded]
    /\ threads' = [threads EXCEPT ![th].i = 1,
                                  ![th].pc = IF threads[th].cached = <<>>
                                             THEN "loaded" ELSE "loop"]
    /\ UNCHANGED <<securities, documents, chunks, now, result, conn>>

\* _build_index, one iteration of the loop (lines 98-114), on the tables the
\* instance holds now.
ThreadBuildStep(th) ==
    /\ result = NoCall
    /\ threads[th].pc = "loop"
    /\ index' = build_step(index, threads[th].cached[threads[th].i])
    /\ threads' = [threads EXCEPT ![th].i = threads[th].i + 1,
                                  ![th].pc = IF threads[th].i = Len(threads[th].cached)
                                             THEN "loaded" ELSE "loop"]
    /\ UNCHANGED <<securities, documents, chunks, now, result, conn>>

\* _build_index, line 116: self._loaded = True
ThreadBuildDone(th) ==
    /\ result = NoCall
    /\ threads[th].pc = "loaded"
    /\ index' = [index EXCEPT !.loaded = TRUE]
    /\ threads' = [threads EXCEPT ![th].pc = "resolve"]
    /\ UNCHANGED <<securities, documents, chunks, now, result, conn>>

\* resolve after _ensure_loaded (lines 133-203), on the tables the instance
\* holds now; seen records them.
ThreadResolve(th) ==
    LET r == resolve(index, threads[th].query, [i \in DOMAIN index.search_corpus |-> 0],
                     DefaultTopN, DefaultCutoff)
    IN  /\ result = NoCall
        /\ threads[th].pc = "resolve"
        /\ result' = [op |-> "resolve", thread |-> th, query |-> threads[th].query,
                      status |-> "ok", tier |-> r.tier, val |-> r.val, seen |-> index]
        /\ threads' = [threads EXCEPT ![th] = [pc |-> "idle"]]
        /\ UNCHANGED <<securities, documents, chunks, index, now, conn>>

ThreadCallAny == \E th \in Threads, query \in ThreadQueries : ThreadCall(th, query)
ThreadEnsureAny == \E th \in Threads : ThreadEnsure(th)
ThreadBuildResetAny == \E th \in Threads : ThreadBuildReset(th)
ThreadBuildStepAny == \E th \in Threads : ThreadBuildStep(th)
ThreadBuildDoneAny == \E th \in Threads : ThreadBuildDone(th)
ThreadResolveAny == \E th \in Threads : ThreadResolve(th)

NextThreads ==
    \/ ThreadCallAny
    \/ ThreadEnsureAny
    \/ ThreadBuildResetAny
    \/ ThreadBuildStepAny
    \/ ThreadBuildDoneAny
    \/ ThreadResolveAny
    \/ Return

SpecThreads == InitThreads /\ [][NextThreads]_vars

(***************************************************************************)
(* Property of concurrent resolve calls.                                   *)
(***************************************************************************)
\* The list, lookup tables and search corpus of an index.
TablesOf(ix) ==
    [securities |-> ix.securities, by_code |-> ix.by_code, by_isin |-> ix.by_isin,
     by_symbol |-> ix.by_symbol, search_corpus |-> ix.search_corpus]

\* C14 as claimed: the list, lookup tables and search corpus a resolve call
\* answers from are those of the complete previous index (the empty one of
\* construction) or those of the complete index of the stored rows, never
\* anything in between.
Cex_C14_NoPartialIndex ==
    (result.op = "resolve" /\ result.status = "ok") =>
        \/ TablesOf(result.seen) = TablesOf(NewIndex)
        \/ TablesOf(result.seen) = TablesOf(build_index(load_securities(securities)))

\* C14, the visible effect: a query for the code of a stored security gets
\* its match.
Cex_C14_StoredCodeFound ==
    (result.op = "resolve" /\ result.status = "ok"
        /\ \E i \in DOMAIN securities : securities[i].scrip_code = result.query) =>
        result.val # <<>>

(***************************************************************************)
(* Properties of the prefix and substring tiers.                           *)
(***************************************************************************)
\* Market-segment priority: A, B, T, M, then every other group alike.
Priority(group) ==
    CASE group = "A" -> 1 [] group = "B" -> 2 [] group = "T" -> 3 [] group = "M" -> 4
      [] OTHER -> 5

Min(a, b) == IF a <= b THEN a ELSE b

\* x is not after y by priority, then symbol length, then name.
PrefixOrdered(x, y) ==
    \/ Priority(x.group) < Priority(y.group)
    \/ /\ Priority(x.group) = Priority(y.group)
       /\ \/ Len(x.scrip_id) < Len(y.scrip_id)
          \/ (Len(x.scrip_id) = Len(y.scrip_id) /\ ~str_less(y.name, x.name))

\* x is not after y by name length, then priority.
SubstringOrdered(x, y) ==
    \/ Len(x.name) < Len(y.name)
    \/ (Len(x.name) = Len(y.name) /\ Priority(x.group) <= Priority(y.group))

\* C21: an answer of the prefix tier holds matches of score 95 whose symbol
\* starts with the query, upper-cased; it has min(top_n, number of prefix
\* matches) entries, no security twice, in the order priority, symbol
\* length, name, and every prefix match left out is not before any entry in
\* that order.  The answer is therefore fixed by the security set, the query
\* and top_n.
Thm_C21_PrefixTier ==
    (Resolved /\ result.tier = "prefix") =>
        LET q == strip(result.query)
            all == {format_result(sec, 95) : sec \in PrefixMatches(q)}
            val == result.val
        IN  /\ \A m \in Range(val) :
                   /\ m.score = 95
                   /\ startswith(upper(m.scrip_id), upper(q))
                   /\ m \in all
            /\ Len(val) = Min(result.top_n, Cardinality(all))
            /\ \A i, j \in DOMAIN val : i < j => (val[i] # val[j] /\ PrefixOrdered(val[i], val[j]))
            /\ \A m \in all \ Range(val) : \A i \in DOMAIN val : PrefixOrdered(val[i], m)

\* C21 witness: two prefix matches are returned, the one of group M before
\* the one of group X, which the provider lists first.
Wit_C21_PrefixTier ==
    /\ Resolved
    /\ result.tier = "prefix"
    /\ Len(result.val) = 2
    /\ result.val[1].group = "M"
    /\ result.val[2].group = "X"

\* C22: an answer of the substring tier holds matches of score 90 whose name
\* or issuer name contains the query, lower-cased; it has min(top_n, number
\* of substring matches) entries, no security twice, in the order name
\* length, priority, and every substring match left out is not before any
\* entry in that order.
Thm_C22_SubstringTier ==
    (Resolved /\ result.tier = "substring") =>
        LET q == strip(result.query)
            all == {format_result(sec, 90) : sec \in SubstringMatches(q)}
            val == result.val
        IN  /\ \A m \in Range(val) :
                   /\ m.score = 90
                   /\ \/ contains(lower(m.name), lower(q))
                      \/ contains(lower(m.issuer_name), lower(q))
                   /\ m \in all
            /\ Len(val) = Min(result.top_n, Cardinality(all))
            /\ \A i, j \in DOMAIN val :
                   i < j => (val[i] # val[j] /\ SubstringOrdered(val[i], val[j]))
            /\ \A m \in all \ Range(val) : \A i \in DOMAIN val : SubstringOrdered(val[i], m)

\* C22 witness: two substring matches are returned, the shorter name first
\* although its group has the lower priority.
Wit_C22_SubstringTier ==
    /\ Resolved
    /\ result.tier = "substring"
    /\ Len(result.val) = 2
    /\ Len(result.val[1].name) < Len(result.val[2].name)
    /\ Priority(result.val[1].group) > Priority(result.val[2].group)

(***************************************************************************)
(* Properties of the first use of the index and of a refresh with failing  *)
(* groups.                                                                 *)
(***************************************************************************)
\* The hours since the oldest stored row was cached.
StoreAge ==
    now - (CHOOSE c \in {securities[i].cached_at : i \in DOMAIN securities} :
               \A i \in DOMAIN securities : c <= securities[i].cached_at)

\* C23: the first use of the index over a non-empty store younger than 24
\* hours builds the index from the stored rows; the provider is not called,
\* with or without a handle, and the store is left as it is.
Thm_C23_FreshStore ==
    [][(/\ result = NoCall
        /\ result'.op = "resolve"
        /\ ~index.loaded
        /\ securities # <<>>
        /\ StoreAge < 24)
       => (/\ result'.load = "store"
           /\ result'.world = NoWorld
           /\ result'.status = "ok"
           /\ securities' = securities
           /\ index'.loaded
           /\ index'.securities = securities
           /\ \A i \in DOMAIN securities :
                  dict_has(index'.by_code, securities[i].scrip_code))]_vars

\* C23 witness: a call with a provider handle, some hours after the refresh,
\* was answered from the index built from the store.
Wit_C23_FreshStore ==
    /\ Resolved
    /\ result.has_bse
    /\ result.load = "store"
    /\ now > 0
    /\ securities # <<>>
    /\ StoreAge < 24
    /\ index.loaded
    /\ result.val # <<>>

\* The position of a group in the fixed order of the refresh.
GroupPos(group) == CHOOSE i \in DOMAIN GROUPS : GROUPS[i] = group

\* The listed records of the groups whose listing does not raise.
Listed(world) == {i \in world.avail : Universe[i].listed \notin world.failing}

\* The first listed record with the code, in group order and then in the
\* order of the group's listing.
FirstListed(world, code) ==
    CHOOSE i \in Listed(world) :
        /\ Universe[i].rec.SCRIP_CD = code
        /\ \A j \in Listed(world) :
               Universe[j].rec.SCRIP_CD = code =>
                   \/ GroupPos(Universe[i].listed) < GroupPos(Universe[j].listed)
                   \/ (Universe[i].listed = Universe[j].listed /\ i <= j)

\* C24: a refresh in which some groups raise and the others list at least
\* one security stores the securities of the groups that did not raise: the
\* stored codes are the codes they list, each code is stored once, and its
\* row is that of the first record with the code in group order.
Thm_C24_FailingGroup ==
    [][(/\ result = NoCall
        /\ result'.op = "resolve"
        /\ result'.load = "fetch"
        /\ Listed(result'.world) # {})
       => LET world == result'.world
          IN  /\ result'.status = "ok"
              /\ CodesOf(securities') = {Universe[i].rec.SCRIP_CD : i \in Listed(world)}
              /\ \A i, j \in DOMAIN securities' :
                     securities'[i].scrip_code = securities'[j].scrip_code => i = j
              /\ \A i \in DOMAIN securities' :
                     securities'[i] =
                         securities_row(Universe[FirstListed(world, securities'[i].scrip_code)].rec,
                                        now)]_vars

\* C24 witness: group A raised, and the code that groups A and B both list
\* is stored with the record of group B, next to the other groups' codes.
Wit_C24_FailingGroup ==
    /\ Refreshed
    /\ result.world.failing = {"A"}
    /\ Len(securities) >= 3
    /\ \E i \in DOMAIN securities :
           /\ securities[i].scrip_code = U5.rec.SCRIP_CD
           /\ securities[i].scrip_id = U5.rec.scrip_id
           /\ securities[i].cached_at = now

\* C24 witness: no group raised, and the code that groups A and B both list
\* is stored once, with the record of group A.
Wit_C24_FirstWins ==
    /\ Refreshed
    /\ result.world.failing = {}
    /\ {1, 5} \subseteq result.world.avail
    /\ \E i \in DOMAIN securities :
           /\ securities[i].scrip_code = U1.rec.SCRIP_CD
           /\ securities[i].scrip_id = U1.rec.scrip_id
           /\ securities[i].cached_at = now

\* C28: a resolve over an empty store and an index that is not loaded, with
\* a provider handle, fetches; when the fetch yields nothing the call
\* returns no match without raising, the store stays empty and the index
\* stays unloaded, so that the next such call fetches again.
Thm_C28_EmptyEverywhere ==
    [][(/\ result = NoCall
        /\ result'.op = "resolve"
        /\ result'.has_bse
        /\ ~index.loaded
        /\ securities = <<>>)
       => (/\ result'.load = "fetch"
           /\ Listed(result'.world) = {} =>
                 /\ result'.status = "ok"
                 /\ result'.val = <<>>
                 /\ ~index'.loaded
                 /\ securities' = <<>>)]_vars

\* C28 witness: a call for a code fetched nothing over an empty store and
\* returned no match; the index is still not loaded.
Wit_C28_EmptyEverywhere ==
    /\ Resolved
    /\ result.has_bse
    /\ result.load = "fetch"
    /\ Listed(result.world) = {}
    /\ result.prev = {}
    /\ strip(result.query) = <<"5","0","0">>
    /\ result.val = <<>>
    /\ securities = <<>>
    /\ ~index.loaded

(***************************************************************************)
(* Referential integrity of the document cache.                            *)
(***************************************************************************)
\* C26: every stored chunk belongs to a stored document, after any sequence
\* of cache_document, clear_company_cache and clear_all_cache calls.
Thm_C26_NoOrphanChunk ==
    \A i \in DOMAIN chunks : \E j \in DOMAIN documents : documents[j].id = chunks[i].doc_id

\* C26 witness: clear_company_cache has deleted the one document of a
\* company while a document of the other company, with chunks, stays.
Wit_C26_NoOrphanChunk ==
    /\ result.op = "clear_company_cache"
    /\ result.ret = 1
    /\ Len(documents) = 1
    /\ documents[1].company_code # result.company_code
    /\ Len(chunks) >= 2

(***************************************************************************)
(* create_smart_chunks as a function of its text: every text of up to      *)
(* MaxPages pages.                                                         *)
(***************************************************************************)
MaxPages == 4

PageKinds == {PgEmpty, PgG1, PgG2, PgBig, PgF, PgQ, PgS, PgN}

AllTexts == UNION {[1..n -> PageKinds] : n \in 0..MaxPages}

\* chunks = create_smart_chunks(text, doc_type)
CreateSmartChunks(text) ==
    /\ result = NoCall
    /\ result' = [op |-> "create_smart_chunks", text |-> text,
                  val |-> create_smart_chunks(text)]
    /\ UNCHANGED <<securities, documents, chunks, index, now, conn, threads>>

CreateSmartChunksCall == result = NoCall /\ \E text \in AllTexts : CreateSmartChunks(text)

NextChunks == CreateSmartChunksCall \/ Return

SpecChunks == Init /\ [][NextChunks]_vars

\* C29: the pages of the chunks create_smart_chunks returns, read in chunk
\* order, are the non-blank pages of the text in their order, each
\* occurrence once, and every chunk holds at least one page, none of them
\* blank.
Thm_C29_PagesKept ==
    result.op = "create_smart_chunks" =>
        /\ PagesOf(result.val) = NonBlank(result.text)
        /\ \A k \in DOMAIN result.val :
               /\ result.val[k].content # <<>>
               /\ \A i \in DOMAIN result.val[k].content : ~result.val[k].content[i].blank
               /\ content_len(result.val[k].content) > 0

\* C29 witness: a text with a blank page between its pages gave two chunks,
\* the first of two pages.
Wit_C29_PagesKept ==
    /\ result.op = "create_smart_chunks"
    /\ \E i \in DOMAIN result.text : result.text[i].blank
    /\ Len(result.val) = 2
    /\ Len(result.val[1].content) = 2

(***************************************************************************)
(* BSEClient.split_date_range (bse_client.py).  A date is its day number.  *)
(***************************************************************************)
MaxDay == 7
MaxSpan == 4

\* The while loop of split_date_range.
RECURSIVE split_loop(_, _, _, _)
split_loop(acc, current, to_date, max_days) ==
    IF current < to_date
    THEN LET chunk_end == Min(current + (max_days - 1), to_date)
         IN  split_loop(Append(acc, <<current, chunk_end>>), chunk_end + 1, to_date, max_days)
    ELSE acc

\* split_date_range(from_date, to_date, max_days)
split_date_range(from_date, to_date, max_days) == split_loop(<<>>, from_date, to_date, max_days)

\* chunks = self.split_date_range(start, end, max_days)
SplitDateRange(from_date, to_date, max_days) ==
    /\ result = NoCall
    /\ result' = [op |-> "split_date_range", from_date |-> from_date, to_date |-> to_date,
                  max_days |-> max_days,
                  val |-> split_date_range(from_date, to_date, max_days)]
    /\ UNCHANGED <<securities, documents, chunks, index, now, conn, threads>>

SplitDateRangeCall ==
    \E from_date \in 0..MaxDay, to_date \in 0..MaxDay, max_days \in 1..MaxSpan :
        from_date <= to_date /\ SplitDateRange(from_date, to_date, max_days)

NextDates == SplitDateRangeCall \/ Return

SpecDates == Init /\ [][NextDates]_vars

\* The sub-ranges follow one another without gap or overlap and none is
\* longer than max_days days.
Consecutive(val, max_days) ==
    /\ \A k \in DOMAIN val :
           /\ val[k][1] <= val[k][2]
           /\ val[k][2] - val[k][1] + 1 <= max_days
    /\ \A k \in DOMAIN val : k > 1 => val[k][1] = val[k - 1][2] + 1

\* The days the sub-ranges cover.
DaysOf(val) == UNION {val[k][1]..val[k][2] : k \in DOMAIN val}

\* C30: for from_date <= to_date and max_days >= 1 the sub-ranges of
\* split_date_range are consecutive, at most max_days days long, start at
\* from_date, end at to_date and cover every day from from_date to to_date.
Cex_C30_CoversRange ==
    result.op = "split_date_range" =>
        /\ Consecutive(result.val, result.max_days)
        /\ result.val # <<>>
        /\ result.val[1][1] = result.from_date
        /\ result.val[Len(result.val)][2] = result.to_date
        /\ DaysOf(result.val) = result.from_date..result.to_date

\* What the loop does return: consecutive sub-ranges of at most max_days
\* days from from_date on that cover every day before to_date, and to_date
\* too unless the number of days before it is a multiple of max_days.
SplitCoversBeforeEnd ==
    result.op = "split_date_range" =>
        /\ Consecutive(result.val, result.max_days)
        /\ result.val # <<>> => result.val[1][1] = result.from_date
        /\ DaysOf(result.val) =
               IF (result.to_date - result.from_date) % result.max_days = 0
               THEN result.from_date..(result.to_date - 1)
               ELSE result.from_date..result.to_date

\* A range of one day has been split into no sub-range.
SingleDayDropped ==
    /\ result.op = "split_date_range"
    /\ result.from_date = result.to_date
    /\ result.val = <<>>

\* The last day of a longer range is in no sub-range.
LastDayDropped ==
    /\ result.op = "split_date_range"
    /\ result.from_date < result.to_date
    /\ result.val # <<>>
    /\ result.to_date \notin DaysOf(result.val)

(***************************************************************************)
(* BSEClient.resolve_company (bse_client.py): the index first, then the    *)
(* provider's code-to-name lookup.                                         *)
(***************************************************************************)
\* resolve_company returns None.
None == [kind |-> "none"]

\* What self.bse.getScripName(query) does: it returns a name, returns
\* nothing, or raises.
Lookups ==
    {[kind |-> "name", name |-> <<"N","e","w"," ","C","o">>],
     [kind |-> "none"],
     [kind |-> "raise"]}
NoLookup == [kind |-> "not called"]

\* Mutant of resolve_company: an exception of getScripName is not caught.
resolve_company_propagate(matches, query, lookup) ==
    IF matches # <<>>
    THEN LET m == matches[1]
         IN  [status |-> "ok", called |-> FALSE,
              ret |-> [kind |-> "company", scrip_code |-> m.scrip_code, name |-> m.name,
                       symbol |-> m.scrip_id, isin |-> m.isin, group |-> m.group,
                       score |-> m.score]]
    ELSE IF isdigit(query)
    THEN CASE lookup.kind = "name" ->
                  [status |-> "ok", called |-> TRUE,
                   ret |-> [kind |-> "company", scrip_code |-> query, name |-> lookup.name,
                            symbol |-> lookup.name]]
           [] lookup.kind = "none" -> [status |-> "ok", called |-> TRUE, ret |-> None]
           [] lookup.kind = "raise" -> [status |-> "error", called |-> TRUE, ret |-> None]
    ELSE [status |-> "ok", called |-> FALSE, ret |-> None]

\* Mutant of resolve_company: the lookup is made for every query the index
\* does not resolve.
resolve_company_any_query(matches, query, lookup) ==
    IF matches # <<>>
    THEN LET m == matches[1]
         IN  [status |-> "ok", called |-> FALSE,
              ret |-> [kind |-> "company", scrip_code |-> m.scrip_code, name |-> m.name,
                       symbol |-> m.scrip_id, isin |-> m.isin, group |-> m.group,
                       score |-> m.score]]
    ELSE CASE lookup.kind = "name" ->
                  [status |-> "ok", called |-> TRUE,
                   ret |-> [kind |-> "company", scrip_code |-> query, name |-> lookup.name,
                            symbol |-> lookup.name]]
           [] OTHER -> [status |-> "ok", called |-> TRUE, ret |-> None]

\* resolve_company after the call of _resolver.resolve: the record of the
\* first match, else for a numeric query what getScripName gives, else None;
\* with whether getScripName was called.
resolve_company(matches, query, lookup) ==
    IF matches # <<>>
    THEN LET m == matches[1]
         IN  [status |-> "ok", called |-> FALSE,
              ret |-> [kind |-> "company", scrip_code |-> m.scrip_code, name |-> m.name,
                       symbol |-> m.scrip_id, isin |-> m.isin, group |-> m.group,
                       score |-> m.score]]
    ELSE IF isdigit(query)
    THEN CASE lookup.kind = "name" ->
                  [status |-> "ok", called |-> TRUE,
                   ret |-> [kind |-> "company", scrip_code |-> query, name |-> lookup.name,
                            symbol |-> lookup.name]]
           [] OTHER -> [status |-> "ok", called |-> TRUE, ret |-> None]
    ELSE [status |-> "ok", called |-> FALSE, ret |-> None]

\* What a resolve_company call was given and gave back, with the matches of
\* the index and the outcome of getScripName when it was called.
company_result(raw_query, matches, lookup, r) ==
    [op |-> "resolve_company", query |-> raw_query, matches |-> matches,
     lookup |-> IF r.called THEN lookup ELSE NoLookup,
     status |-> r.status, called |-> r.called, ret |-> r.ret]

\* resolve_company once _ensure_loaded has left the index ix and the store
\* rows.
ResolveCompanyReturn(ix, rows, raw_query, query) ==
    \E wratio \in wratio_outcomes(Len(ix.search_corpus)), lookup \in Lookups :
        LET matches == resolve(ix, query, wratio, 1, DefaultCutoff).val
        IN  /\ index' = ix
            /\ securities' = rows
            /\ result' = company_result(raw_query, matches, lookup,
                                        resolve_company(matches, query, lookup))

\* BSEClient.resolve_company(query)
ResolveCompany(raw_query) ==
    LET query == strip(raw_query)
        e == ensure_loaded(index, securities, now, TRUE)
    IN  /\ result = NoCall
        /\ IF query = <<>>
           THEN /\ result' = company_result(raw_query, <<>>, NoLookup,
                                            [status |-> "ok", called |-> FALSE, ret |-> None])
                /\ UNCHANGED <<index, securities>>
           ELSE CASE e.kind = "return" ->
                        ResolveCompanyReturn(e.index, securities, raw_query, query)
                  [] e.kind = "fetch" ->
                        \E world \in Worlds :
                            LET f == fetch_and_cache(index, securities, now, world)
                            IN  ResolveCompanyReturn(f.index, f.securities, raw_query, query)
        /\ UNCHANGED <<documents, chunks, now, conn, threads>>

ResolveCompanyCall == \E query \in Queries : ResolveCompany(query)

NextCompany == ResolveCompanyCall \/ Restart \/ Tick \/ Return

SpecCompany == Init /\ [][NextCompany]_vars

\* C25: resolve_company does not fail; for a numeric query whose code the
\* index does not hold it calls the provider's lookup and returns a record
\* with the query as code and the provider's name when there is one, and no
\* result when the provider returns nothing or raises; for a non-numeric
\* query without a match in the index the lookup is not called and there is
\* no result.
Thm_C25_ProviderFallback ==
    (result.op = "resolve_company" /\ strip(result.query) # <<>>) =>
        LET q == strip(result.query)
        IN  /\ result.status = "ok"
            /\ (isdigit(q) /\ CodeMatches(q) = {}) =>
                   /\ result.called
                   /\ result.lookup.kind = "name" =>
                          /\ result.ret # None
                          /\ result.ret.scrip_code = q
                          /\ result.ret.name = result.lookup.name
                   /\ result.lookup.kind \in {"none", "raise"} => result.ret = None
            /\ (~isdigit(q) /\ result.matches = <<>>) =>
                   /\ ~result.called
                   /\ result.ret = None

\* C25 witness: a numeric query that is not a code of the loaded, non-empty
\* index went to the provider, which raised, and the call returned no
\* result.
Wit_C25_ProviderFallback ==
    /\ result.op = "resolve_company"
    /\ isdigit(strip(result.query))
    /\ Loaded # {}
    /\ CodeMatches(strip(result.query)) = {}
    /\ result.called
    /\ result.lookup.kind = "raise"
    /\ result.status = "ok"
    /\ result.ret = None

\* C25 witness: a name that nothing in the loaded index matches returned no
\* result without a call of the provider's lookup.
Wit_C25_NoLookupForName ==
    /\ result.op = "resolve_company"
    /\ ~isdigit(strip(result.query))
    /\ strip(result.query) # <<>>
    /\ Loaded # {}
    /\ result.matches = <<>>
    /\ ~result.called
    /\ result.ret = None

(***************************************************************************)
(* A loaded index next to a store that ages and that another process using *)
(* the same cache file replaces.                                           *)
(***************************************************************************)
Codes == {<<"5","0","0">>, <<"5","7","0">>, <<"9","9","9">>}

\* What a get_by_code call was given and gave back, with how the index got
\* loaded.
get_by_code_result(code, has_bse, status, load, ix) ==
    [op |-> "get_by_code", code |-> code, has_bse |-> has_bse, status |-> status,
     load |-> load,
     val |-> IF status = "ok" /\ dict_has(ix.by_code, code)
             THEN dict_get(ix.by_code, code) ELSE None]

\* SecurityIndex.get_by_code(code, bse_instance)
GetByCode(code, has_bse) ==
    LET e == ensure_loaded(index, securities, now, has_bse)
    IN  /\ result = NoCall
        /\ CASE e.kind = "raise" ->
                 /\ result' = get_by_code_result(code, has_bse, "error", "raise", index)
                 /\ UNCHANGED <<index, securities>>
            [] e.kind = "return" ->
                 /\ index' = e.index
                 /\ securities' = securities
                 /\ result' = get_by_code_result(code, has_bse, "ok",
                                                 IF index.loaded THEN "loaded" ELSE "store",
                                                 e.index)
            [] e.kind = "fetch" ->
                 \E world \in Worlds :
                     LET f == fetch_and_cache(index, securities, now, world)
                     IN  /\ index' = f.index
                         /\ securities' = f.securities
                         /\ result' = get_by_code_result(code, has_bse, "ok", "fetch", f.index)
        /\ UNCHANGED <<documents, chunks, now, conn, threads>>

GetByCodeCall == \E code \in Codes, has_bse \in BOOLEAN : GetByCode(code, has_bse)

\* Another process that uses the same cache file refreshes the stored set:
\* its _fetch_and_cache saves what it fetched.
StoreReplaced ==
    /\ result = NoCall
    /\ \E world \in Worlds :
           /\ Fetched[world] # <<>>
           /\ securities' = save_securities(Fetched[world], now)
    /\ securities' # securities
    /\ UNCHANGED <<documents, chunks, index, now, result, conn, threads>>

NextLoaded == ResolveCall \/ GetByCodeCall \/ StoreReplaced \/ Restart \/ Tick \/ Return

SpecLoaded == Init /\ [][NextLoaded]_vars

\* C27: a resolve or get_by_code call on a loaded index leaves the index and
\* the store as they are, fetches nothing, does not fail and answers with
\* securities of the index as it was before the call, whatever the age and
\* the content of the store; and a loaded index changes only when the
\* process starts anew.
Thm_C27_NeverRefreshed ==
    [][/\ (/\ result = NoCall
           /\ index.loaded
           /\ result'.op \in {"resolve", "get_by_code"})
          => (/\ index' = index
              /\ securities' = securities
              /\ result'.load = "loaded"
              /\ result'.status = "ok"
              /\ result'.op = "get_by_code" =>
                     result'.val = IF \E i \in DOMAIN index.securities :
                                         index.securities[i].scrip_code = result'.code
                                   THEN dict_get(index.by_code, result'.code)
                                   ELSE None
              /\ result'.op = "resolve" =>
                     /\ result'.world = NoWorld
                     /\ \A k \in DOMAIN result'.val :
                            \E i \in DOMAIN index.securities :
                                /\ index.securities[i].scrip_code = result'.val[k].scrip_code
                                /\ index.securities[i].scrip_name = result'.val[k].name)
       /\ index.loaded =>
              \/ index' = index
              \/ (index' = NewIndex /\ result = NoCall /\ result' = NoCall)]_vars

\* C27 witness: get_by_code with a provider handle answered from an index
\* whose rows are not those of the store, which another process has
\* replaced and which is 24 hours old.
Wit_C27_NeverRefreshed ==
    /\ result.op = "get_by_code"
    /\ result.load = "loaded"
    /\ result.has_bse
    /\ result.val # None
    /\ securities # <<>>
    /\ CodesOf(index.securities) # CodesOf(securities)
    /\ result.code \notin CodesOf(securities)
    /\ StoreAge >= 24

====
